---------------------------- MODULE Spec2Model ----------------------------
(***************************************************************************)
(* Model of agents/failure-analyzer.ts: the failure classifier, the        *)
(* rule-based diagnoser and the failure extractor.                         *)
(*                                                                         *)
(* JavaScript strings are TLA+ strings; Len, SubSeq and \o act on them     *)
(* character by character.  The escape character \x1b has no TLA+ literal  *)
(* and is written ESC below.                                               *)
(***************************************************************************)
EXTENDS Integers, Sequences, FiniteSets, TLC

VARIABLES
    pc,            \* position of the run being modelled
    errorMessage,  \* argument errorMessage of classifyFailure / analyzeWithRules
    stack,         \* argument stack of classifyFailure: <<>> (absent) or <<text>>
    failureType,   \* value returned by classifyFailure (or passed to analyzeWithRules)
    rules,         \* value returned by analyzeWithRules
    nfrags,        \* number of fragments errorMessage was put together from
    edits,         \* number of case changes and colour sequences applied to the texts
    report,        \* report.suites: the suite tree of the PlaywrightReport
    open,          \* depth of the suite the reporter is writing (0: none open)
    nodes,         \* number of suites, specs, tests and results in report
    failures,      \* value returned by extractFailures
    analyses,      \* the FailureAnalysis list (main's analyses, generateReport's argument)
    totalTests,    \* main's totalTests
    passedTests,   \* main's passedTests
    totalDuration, \* main's totalDuration
    md,            \* value returned by generateReport, as the list of its lines
    apiKey,        \* whether process.env.GEMINI_API_KEY is set
    inflight,      \* indices of the failures whose enrichment request awaits its response
    outcomes,      \* how the enrichment of each analysed failure ended, in order
    written,       \* the contents written to test-results/failure-analysis.md, in order
    printed,       \* the counts printSummary printed: <<>> or <<[passed, failed, total]>>
    executions,    \* number of times runTests has run the test command
    exitCode,      \* <<>> while the process runs or ended normally, <<n>> after process.exit(n)
    reportFile,    \* test-results/report.json: what it holds and which run wrote it
    origin,        \* which test execution produced the report runTests returned
    filePath,      \* argument filePath of readSourceContext
    files,         \* the file system at the candidate paths of readSourceContext
    context        \* what readSourceContext returned or that it threw

treeVars == <<report, open, nodes, failures>>

reportVars == <<analyses, totalTests, passedTests, totalDuration, md>>

enrichVars == <<apiKey, inflight, outcomes, written>>

ingestVars == <<executions, exitCode, reportFile, origin>>

sourceVars == <<filePath, files, context>>

sysVars == <<printed, ingestVars, sourceVars>>

runVars == <<reportVars, enrichVars, sysVars>>

vars == <<pc, errorMessage, stack, failureType, rules, nfrags, edits, treeVars, runVars>>

\* main has not begun
NoMain ==
    /\ analyses = <<>>
    /\ totalTests = 0
    /\ passedTests = 0
    /\ totalDuration = 0
    /\ md = <<>>
    /\ apiKey = FALSE
    /\ inflight = {}
    /\ outcomes = <<>>
    /\ written = <<>>
    /\ printed = <<>>

\* runTests has not begun
NoIngest ==
    /\ executions = 0
    /\ exitCode = <<>>
    /\ reportFile = [state |-> "absent"]
    /\ origin = "none"

\* readSourceContext has not been called
NoSource ==
    /\ filePath = ""
    /\ files = <<>>
    /\ context = [threw |-> FALSE, text |-> ""]

\* no run of main and no call of generateReport has begun
NoRun == NoMain /\ NoIngest /\ NoSource

-----------------------------------------------------------------------------
(* Characters and strings                                                  *)

ESC == "^"

Digits == {"0", "1", "2", "3", "4", "5", "6", "7", "8", "9"}

UpperAlpha == "ABCDEFGHIJKLMNOPQRSTUVWXYZ"

LowerAlpha == "abcdefghijklmnopqrstuvwxyz"

CharAt(s, i) == SubSeq(s, i, i)

Drop(s, n) == SubSeq(s, n + 1, Len(s))

UpperChars == {CharAt(UpperAlpha, i) : i \in 1..26}

LowerChars == {CharAt(LowerAlpha, i) : i \in 1..26}

LowerMap ==
    [c \in UpperChars |->
        CharAt(LowerAlpha, CHOOSE i \in 1..26 : CharAt(UpperAlpha, i) = c)]

UpperMap ==
    [c \in LowerChars |->
        CharAt(UpperAlpha, CHOOSE i \in 1..26 : CharAt(LowerAlpha, i) = c)]

\* String.prototype.toLowerCase, one character
LowerChar(c) == IF c \in UpperChars THEN LowerMap[c] ELSE c

RECURSIVE toLowerCase(_)
toLowerCase(s) ==
    IF s = "" THEN "" ELSE LowerChar(CharAt(s, 1)) \o toLowerCase(Drop(s, 1))

\* String.prototype.includes
includes(s, p) ==
    \E i \in 1..(Len(s) - Len(p) + 1) : SubSeq(s, i, i + Len(p) - 1) = p

\* index of the first character of s at or after i that is not in set cs
\* (Len(s) + 1 when there is none): the greedy run of a regex class
RECURSIVE RunEnd(_, _, _)
RunEnd(s, i, cs) ==
    IF i <= Len(s) /\ CharAt(s, i) \in cs THEN RunEnd(s, i + 1, cs) ELSE i

-----------------------------------------------------------------------------
(* stripAnsi                                                               *)

\* length of the match of /\x1b\[[0-9;]*m/ at the start of s, 0 when none
AnsiMatchLen(s) ==
    IF Len(s) >= 3 /\ SubSeq(s, 1, 2) = ESC \o "["
    THEN LET k == RunEnd(s, 3, Digits \cup {";"})
         IN  IF k <= Len(s) /\ CharAt(s, k) = "m" THEN k ELSE 0
    ELSE 0

\* length of the match of /\[\d+m/ at the start of s, 0 when none
BareMatchLen(s) ==
    IF Len(s) >= 3 /\ CharAt(s, 1) = "["
    THEN LET k == RunEnd(s, 2, Digits)
         IN  IF k > 2 /\ k <= Len(s) /\ CharAt(s, k) = "m" THEN k ELSE 0
    ELSE 0

\* str.replace(/\x1b\[[0-9;]*m/g, ""): one left-to-right pass
RECURSIVE ReplaceAnsi(_)
ReplaceAnsi(s) ==
    IF s = "" THEN ""
    ELSE LET n == AnsiMatchLen(s)
         IN  IF n > 0 THEN ReplaceAnsi(Drop(s, n))
             ELSE CharAt(s, 1) \o ReplaceAnsi(Drop(s, 1))

\* str.replace(/\[\d+m/g, ""): one left-to-right pass
RECURSIVE ReplaceBare(_)
ReplaceBare(s) ==
    IF s = "" THEN ""
    ELSE LET n == BareMatchLen(s)
         IN  IF n > 0 THEN ReplaceBare(Drop(s, n))
             ELSE CharAt(s, 1) \o ReplaceBare(Drop(s, 1))

stripAnsi(str) == ReplaceBare(ReplaceAnsi(str))

-----------------------------------------------------------------------------
(* classifyFailure                                                         *)

FailureType ==
    {"SELECTOR_NOT_FOUND", "TIMEOUT", "ASSERTION_MISMATCH",
     "NAVIGATION_ERROR", "NETWORK_ERROR", "UNKNOWN"}

\* (stack || ""): an absent stack and an empty one both give ""
StackOrEmpty(stk) == IF stk = <<>> THEN "" ELSE stk[1]

NormalizedText_NoLowerCase(message, stk) ==
    stripAnsi(message \o " " \o StackOrEmpty(stk))

\* const msg = stripAnsi(errorMessage + " " + (stack || "")).toLowerCase()
NormalizedText(message, stk) ==
    toLowerCase(stripAnsi(message \o " " \o StackOrEmpty(stk)))

\* the condition of the first if
assertionRule(msg) ==
    \/ includes(msg, "tocontaintext")
    \/ includes(msg, "tohaveurl")
    \/ includes(msg, "toequal")
    \/ includes(msg, "tobetruthy")
    \/ includes(msg, "expected substring")
    \/ includes(msg, "expected string")
    \/ includes(msg, "received string")
    \/ (includes(msg, "expect(") /\ includes(msg, ") failed"))

\* the condition of the second if
selectorRule(msg) ==
    \/ includes(msg, "element(s) not found")
    \/ (includes(msg, "waiting for locator") /\ ~includes(msg, "tocontaintext"))
    \/ includes(msg, "waiting for getbyrole")
    \/ includes(msg, "waiting for selector")
    \/ includes(msg, "no element matches")

\* the condition of the third if
navigationRule(msg) ==
    /\ includes(msg, "timeout")
    /\ \/ includes(msg, "waitforurl")
       \/ includes(msg, "page.goto")
       \/ includes(msg, "navigation")

\* the condition of the fourth if
timeoutRule(msg) == includes(msg, "timeout")

\* the condition of the fifth if
networkRule(msg) ==
    \/ includes(msg, "net::err")
    \/ includes(msg, "econnrefused")
    \/ includes(msg, "enotfound")
    \/ includes(msg, "fetch failed")

\* faulty variant: the final return is missing, so unmatched text yields undefined
classifyFailure_NoDefault(message, stk) ==
    LET msg == NormalizedText(message, stk)
    IN  IF assertionRule(msg) THEN "ASSERTION_MISMATCH"
        ELSE IF selectorRule(msg) THEN "SELECTOR_NOT_FOUND"
        ELSE IF navigationRule(msg) THEN "NAVIGATION_ERROR"
        ELSE IF timeoutRule(msg) THEN "TIMEOUT"
        ELSE IF networkRule(msg) THEN "NETWORK_ERROR"
        ELSE "undefined"

\* faulty variant: the timeout test is made before the navigation test
classifyFailure_TimeoutFirst(message, stk) ==
    LET msg == NormalizedText(message, stk)
    IN  IF assertionRule(msg) THEN "ASSERTION_MISMATCH"
        ELSE IF selectorRule(msg) THEN "SELECTOR_NOT_FOUND"
        ELSE IF timeoutRule(msg) THEN "TIMEOUT"
        ELSE IF navigationRule(msg) THEN "NAVIGATION_ERROR"
        ELSE IF networkRule(msg) THEN "NETWORK_ERROR"
        ELSE "UNKNOWN"

\* faulty variant: the selector test is made before the assertion test
classifyFailure_SelectorFirst(message, stk) ==
    LET msg == NormalizedText(message, stk)
    IN  IF selectorRule(msg) THEN "SELECTOR_NOT_FOUND"
        ELSE IF assertionRule(msg) THEN "ASSERTION_MISMATCH"
        ELSE IF navigationRule(msg) THEN "NAVIGATION_ERROR"
        ELSE IF timeoutRule(msg) THEN "TIMEOUT"
        ELSE IF networkRule(msg) THEN "NETWORK_ERROR"
        ELSE "UNKNOWN"

\* faulty variant: the network test is made before the timeout test
classifyFailure_NetworkFirst(message, stk) ==
    LET msg == NormalizedText(message, stk)
    IN  IF assertionRule(msg) THEN "ASSERTION_MISMATCH"
        ELSE IF selectorRule(msg) THEN "SELECTOR_NOT_FOUND"
        ELSE IF navigationRule(msg) THEN "NAVIGATION_ERROR"
        ELSE IF networkRule(msg) THEN "NETWORK_ERROR"
        ELSE IF timeoutRule(msg) THEN "TIMEOUT"
        ELSE "UNKNOWN"

classifyFailure(message, stk) ==
    LET msg == NormalizedText(message, stk)
    IN  IF assertionRule(msg) THEN "ASSERTION_MISMATCH"
        ELSE IF selectorRule(msg) THEN "SELECTOR_NOT_FOUND"
        ELSE IF navigationRule(msg) THEN "NAVIGATION_ERROR"
        ELSE IF timeoutRule(msg) THEN "TIMEOUT"
        ELSE IF networkRule(msg) THEN "NETWORK_ERROR"
        ELSE "UNKNOWN"

-----------------------------------------------------------------------------
(* The classifier applied to texts put together from the phrases the test  *)
(* runner prints, whole or cut in two.                                     *)

MaxFrags == 2

ClassifyFragments ==
    {"toContainText", "toHaveURL", "toEqual", "toBeTruthy",
     "Expected substring", "Expected string", "Received string",
     "expect(", ") failed",
     "element(s) not found", "waiting for locator", "waiting for getByRole",
     "waiting for selector", "no element matches",
     "waitForURL", "page.goto", "navigation",
     "Timeout", "Time", "out",
     "net::ERR", "ECONNREFUSED", "ENOTFOUND", "fetch failed",
     "Error", ESC \o "[31m"}

\* the stack argument: absent, empty, or a text
ClassifyStacks == {<<>>, <<"">>, <<"waiting for locator">>, <<"Timeout">>}

NoRules == [rootCause |-> "", suggestedFix |-> "", priority |-> "none"]

InitClassify ==
    /\ pc = "input"
    /\ errorMessage = ""
    /\ stack \in ClassifyStacks
    /\ failureType = "none"
    /\ rules = NoRules
    /\ nfrags = 0
    /\ edits = 0
    /\ report = <<>>
    /\ open = 0
    /\ nodes = 0
    /\ failures = <<>>
    /\ NoRun

AppendMessage(f) ==
    /\ pc = "input"
    /\ nfrags < MaxFrags
    /\ errorMessage' = errorMessage \o f
    /\ nfrags' = nfrags + 1
    /\ UNCHANGED <<pc, stack, failureType, rules, edits, treeVars, runVars>>

Classify ==
    /\ pc = "input"
    /\ failureType' = classifyFailure(errorMessage, stack)
    /\ pc' = "classified"
    /\ UNCHANGED <<errorMessage, stack, rules, nfrags, edits, treeVars, runVars>>

NextClassify ==
    \/ \E f \in ClassifyFragments : AppendMessage(f)
    \/ Classify

SpecClassify == InitClassify /\ [][NextClassify]_vars

-----------------------------------------------------------------------------
(* Claims about classifyFailure                                            *)

Text == NormalizedText(errorMessage, stack)

AssertionMarkers ==
    {"tocontaintext", "tohaveurl", "toequal", "tobetruthy",
     "expected substring", "expected string", "received string"}

SelectorMarkers ==
    {"element(s) not found", "waiting for locator", "waiting for getbyrole",
     "waiting for selector", "no element matches"}

NavigationKeywords == {"waitforurl", "page.goto", "navigation"}

NetworkMarkers == {"net::err", "econnrefused", "enotfound", "fetch failed"}

HasAny(t, markers) == \E m \in markers : includes(t, m)

HasAssertionMarker(t) ==
    HasAny(t, AssertionMarkers) \/ (includes(t, "expect(") /\ includes(t, ") failed"))

HasTimeout(t) == includes(t, "timeout")

\* C1: classifyFailure returns one of the six FailureType values for every
\* message and every (possibly absent) stack, and UNKNOWN whenever the
\* normalized text holds no assertion, selector, timeout or network marker.
C1_Total ==
    LET t == Text IN
    pc = "classified" =>
        /\ failureType \in FailureType
        /\ (~HasAssertionMarker(t) /\ ~HasAny(t, SelectorMarkers)
            /\ ~HasTimeout(t) /\ ~HasAny(t, NetworkMarkers))
           => failureType = "UNKNOWN"

\* a text with a navigation keyword and half a marker, but no marker, is UNKNOWN
C1_Witness ==
    /\ pc = "classified"
    /\ failureType = "UNKNOWN"
    /\ errorMessage = "navigation" \o "out"
    /\ stack = <<>>

\* C2: a text with the timeout phrase and a navigation keyword is never
\* TIMEOUT, and is NAVIGATION_ERROR when it holds no assertion marker and no
\* selector marker.
C2_NavigationOverTimeout ==
    LET t == Text IN
    (pc = "classified" /\ HasTimeout(t) /\ HasAny(t, NavigationKeywords)) =>
        /\ failureType # "TIMEOUT"
        /\ (~HasAssertionMarker(t) /\ ~HasAny(t, SelectorMarkers))
           => failureType = "NAVIGATION_ERROR"

\* timeout, navigation keyword and network marker together: NAVIGATION_ERROR
C2_Witness ==
    LET t == Text IN
    /\ pc = "classified"
    /\ failureType = "NAVIGATION_ERROR"
    /\ HasTimeout(t)
    /\ includes(t, "page.goto")
    /\ includes(t, "net::err")

\* C3: a text with an assertion marker is ASSERTION_MISMATCH whatever else it
\* holds (so a toContainText retry timeout with 'waiting for locator' and
\* 'timeout' is neither SELECTOR_NOT_FOUND nor TIMEOUT), and a text with
\* 'waiting for locator/getByRole/selector' and no assertion marker is
\* SELECTOR_NOT_FOUND.
C3_AssertionFirst ==
    LET t == Text IN
    pc = "classified" =>
        /\ HasAssertionMarker(t) => failureType = "ASSERTION_MISMATCH"
        /\ (/\ ~HasAssertionMarker(t)
            /\ HasAny(t, {"waiting for locator", "waiting for getbyrole",
                             "waiting for selector"}))
           => failureType = "SELECTOR_NOT_FOUND"

\* the toContainText retry timeout
C3_Witness ==
    LET t == Text IN
    /\ pc = "classified"
    /\ failureType = "ASSERTION_MISMATCH"
    /\ includes(t, "tocontaintext")
    /\ includes(t, "waiting for locator")
    /\ HasTimeout(t)

\* C4: a text that rules 1 to 3 do not claim is TIMEOUT if it holds the
\* timeout phrase, else NETWORK_ERROR if it holds a network marker, else
\* UNKNOWN; a text with both timeout and a network marker is never
\* NETWORK_ERROR.
C4_TimeoutNetworkUnknown ==
    LET t == Text IN
    pc = "classified" =>
        /\ (/\ ~HasAssertionMarker(t)
            /\ ~HasAny(t, SelectorMarkers)
            /\ ~(HasTimeout(t) /\ HasAny(t, NavigationKeywords)))
           => failureType =
                IF HasTimeout(t) THEN "TIMEOUT"
                ELSE IF HasAny(t, NetworkMarkers) THEN "NETWORK_ERROR"
                ELSE "UNKNOWN"
        /\ (HasTimeout(t) /\ HasAny(t, NetworkMarkers))
           => failureType # "NETWORK_ERROR"

\* timeout and a network marker together: TIMEOUT
C4_Witness ==
    LET t == Text IN
    /\ pc = "classified"
    /\ failureType = "TIMEOUT"
    /\ HasTimeout(t)
    /\ HasAny(t, NetworkMarkers)

-----------------------------------------------------------------------------
(* The classifier applied to texts whose letters change case and into      *)
(* which colour sequences are inserted.                                    *)

MaxEdits == 1

EditMessages ==
    {"Timeout",
     "Time" \o ESC \o "[31mout",
     "Time[1mout",
     "toEqual",
     "net::ERR"}

EditStacks == {<<>>, <<"page.goto">>}

\* ESC[<digits and semicolons>m
ColourSequences == {ESC \o "[m", ESC \o "[1;31m"}

IsLetter(c) == c \in UpperChars \cup LowerChars

SwapCase(c) ==
    IF c \in UpperChars THEN LowerMap[c]
    ELSE IF c \in LowerChars THEN UpperMap[c]
    ELSE c

\* s with the case of its i-th character changed
ChangeCaseAt(s, i) == SubSeq(s, 1, i - 1) \o SwapCase(CharAt(s, i)) \o Drop(s, i)

\* s with q inserted after its first p characters
InsertAt(s, p, q) == SubSeq(s, 1, p) \o q \o Drop(s, p)

InitEdit ==
    /\ pc = "input"
    /\ errorMessage \in EditMessages
    /\ stack \in EditStacks
    /\ failureType = "none"
    /\ rules = NoRules
    /\ nfrags = 0
    /\ edits = 0
    /\ report = <<>>
    /\ open = 0
    /\ nodes = 0
    /\ failures = <<>>
    /\ NoRun

ChangeCaseMessage(i) ==
    /\ pc = "input"
    /\ edits < MaxEdits
    /\ IsLetter(CharAt(errorMessage, i))
    /\ errorMessage' = ChangeCaseAt(errorMessage, i)
    /\ edits' = edits + 1
    /\ UNCHANGED <<pc, stack, failureType, rules, nfrags, treeVars, runVars>>

ChangeCaseStack(i) ==
    /\ pc = "input"
    /\ edits < MaxEdits
    /\ stack # <<>>
    /\ i <= Len(stack[1])
    /\ IsLetter(CharAt(stack[1], i))
    /\ stack' = <<ChangeCaseAt(stack[1], i)>>
    /\ edits' = edits + 1
    /\ UNCHANGED <<pc, errorMessage, failureType, rules, nfrags, treeVars, runVars>>

InsertColourMessage(p, q) ==
    /\ pc = "input"
    /\ edits < MaxEdits
    /\ errorMessage' = InsertAt(errorMessage, p, q)
    /\ edits' = edits + 1
    /\ UNCHANGED <<pc, stack, failureType, rules, nfrags, treeVars, runVars>>

InsertColourStack(p, q) ==
    /\ pc = "input"
    /\ edits < MaxEdits
    /\ stack # <<>>
    /\ p <= Len(stack[1])
    /\ stack' = <<InsertAt(stack[1], p, q)>>
    /\ edits' = edits + 1
    /\ UNCHANGED <<pc, errorMessage, failureType, rules, nfrags, treeVars, runVars>>

StackLen == IF stack = <<>> THEN 0 ELSE Len(stack[1])

NextEdit ==
    \/ \E i \in 1..Len(errorMessage) : ChangeCaseMessage(i)
    \/ \E i \in 1..StackLen : ChangeCaseStack(i)
    \/ \E p \in 0..Len(errorMessage), q \in ColourSequences : InsertColourMessage(p, q)
    \/ \E p \in 0..StackLen, q \in ColourSequences : InsertColourStack(p, q)
    \/ Classify

SpecEdit == InitEdit /\ [][NextEdit]_vars

-----------------------------------------------------------------------------
(* Claim about case and colour sequences                                   *)

SameType ==
    classifyFailure(errorMessage', stack') = classifyFailure(errorMessage, stack)

\* position p of s (p characters before it) lies strictly inside a match of
\* /\x1b\[[0-9;]*m/ in s
RECURSIVE InsideColourSequence(_, _)
InsideColourSequence(s, p) ==
    IF s = "" \/ p <= 0 THEN FALSE
    ELSE LET n == AnsiMatchLen(s)
         IN  IF n > 0 THEN p < n \/ InsideColourSequence(Drop(s, n), p - n)
             ELSE InsideColourSequence(Drop(s, 1), p - 1)

IsM(c) == c \in {"m", "M"}

-----------------------------------------------------------------------------
(* analyzeWithRules                                                        *)

Priorities == {"critical", "high", "medium", "low"}

\* the characters \s matches, as far as a TLA+ string can hold them
WhiteSpace == {" ", "\t", "\n", "\r", "\f"}

\* index of the first character of s at or after i that is in set cs
\* (Len(s) + 1 when there is none): the greedy run of a negated regex class
RECURSIVE RunEndNot(_, _, _)
RunEndNot(s, i, cs) ==
    IF i <= Len(s) /\ CharAt(s, i) \notin cs THEN RunEndNot(s, i + 1, cs) ELSE i

\* the literal part of a pattern under the i flag; lit is in lower case
LiteralAt(s, i, lit) ==
    /\ i + Len(lit) - 1 <= Len(s)
    /\ LowerChar(CharAt(s, i)) = CharAt(lit, 1)
    /\ toLowerCase(SubSeq(s, i, i + Len(lit) - 1)) = lit

\* the least element of a non-empty set of numbers: the leftmost match
Leftmost(S) == CHOOSE i \in S : \A j \in S : i <= j

\* the match of /<lit>\s*"([^"]+)"/i that starts at i: <<group 1>>, or <<>>
QuotedAt(s, i, lit) ==
    IF ~LiteralAt(s, i, lit) THEN <<>>
    ELSE LET j == RunEnd(s, i + Len(lit), WhiteSpace)
             k == RunEndNot(s, j + 1, {"\""})
         IN  IF j <= Len(s) /\ CharAt(s, j) = "\"" /\ k > j + 1 /\ k <= Len(s)
             THEN <<SubSeq(s, j + 1, k - 1)>>
             ELSE <<>>

\* str.match(/<lit>\s*"([^"]+)"/i): <<group 1>> of the leftmost match, or <<>> (null)
matchQuoted(s, lit) ==
    LET hits == {i \in 1..Len(s) : QuotedAt(s, i, lit) # <<>>}
    IN  IF hits = {} THEN <<>> ELSE QuotedAt(s, Leftmost(hits), lit)

\* errorMessage.match(/Expected substring:\s*"([^"]+)"/i)
expectedMatch(message) == matchQuoted(message, "expected substring:")

\* errorMessage.match(/Received string:\s*"([^"]+)"/i)
receivedMatch(message) == matchQuoted(message, "received string:")

\* the match of /(?:locator|getByRole|getByText)\(([^)]+)\)/i that starts at i
SelectorAt(s, i) ==
    LET lits == {lit \in {"locator(", "getbyrole(", "getbytext("} : LiteralAt(s, i, lit)}
    IN  IF lits = {} THEN <<>>
        ELSE LET lit == CHOOSE l \in lits : TRUE
                 k == RunEndNot(s, i + Len(lit), {")"})
             IN  IF k > i + Len(lit) /\ k <= Len(s)
                 THEN <<SubSeq(s, i + Len(lit), k - 1)>>
                 ELSE <<>>

\* errorMessage.match(/(?:locator|getByRole|getByText)\(([^)]+)\)/i)
selectorMatch(message) ==
    LET hits == {i \in 1..Len(message) : SelectorAt(message, i) # <<>>}
    IN  IF hits = {} THEN <<>> ELSE SelectorAt(message, Leftmost(hits))

\* the match of /Timeout (\d+)ms/i that starts at i
TimeoutAt(s, i) ==
    IF ~LiteralAt(s, i, "timeout ") THEN <<>>
    ELSE LET d == RunEnd(s, i + 8, Digits)
         IN  IF d > i + 8 /\ LiteralAt(s, d, "ms")
             THEN <<SubSeq(s, i + 8, d - 1)>>
             ELSE <<>>

\* errorMessage.match(/Timeout (\d+)ms/i)
timeoutMatch(message) ==
    LET hits == {i \in 1..Len(message) : TimeoutAt(message, i) # <<>>}
    IN  IF hits = {} THEN <<>> ELSE TimeoutAt(message, Leftmost(hits))

\* str.split(" ")[0]
SplitSpaceFirst(str) == SubSeq(str, 1, RunEndNot(str, 1, {" "}) - 1)

\* m?.[1] ?? dflt
GroupOr(m, dflt) == IF m = <<>> THEN dflt ELSE m[1]

DriftFix ==
    "1. Loosen the assertion (e.g. verify the title contains the brand name).\n"
    \o "2. Mock the API response for deterministic results.\n"
    \o "3. Avoid position-dependent checks on live catalogs."

\* what a caller sees when the function throws instead of returning
Thrown == [rootCause |-> "", suggestedFix |-> "", priority |-> "thrown"]

\* faulty variant: the whole values are compared instead of their first tokens
sameBrand_WholeValue(expected, received) == expected = received

\* const sameBrand = expected.split(" ")[0] === received.split(" ")[0]
sameBrand(expected, received) == SplitSpaceFirst(expected) = SplitSpaceFirst(received)

\* case FailureType.ASSERTION_MISMATCH
assertionCase(message) ==
    LET em == expectedMatch(message)
        rm == receivedMatch(message)
    IN  IF em # <<>> /\ rm # <<>>
        THEN IF sameBrand(em[1], rm[1])
             THEN [rootCause |->
                       "Data-dependent assertion failure. Expected \"" \o em[1]
                       \o "\" but the live site returned \"" \o rm[1]
                       \o "\". Both share the same brand -- the product "
                       \o "catalog ordering likely changed (price / inventory updates).",
                   suggestedFix |-> DriftFix,
                   priority |-> "medium"]
             ELSE [rootCause |->
                       "Assertion mismatch: expected \"" \o em[1]
                       \o "\" but got \"" \o rm[1] \o "\".",
                   suggestedFix |->
                       "Review whether the expected value matches the current application state. "
                       \o "Consider using a regex matcher or a more flexible assertion.",
                   priority |-> "high"]
        ELSE [rootCause |->
                  "An assertion did not match. May indicate a regression or dynamic data.",
              suggestedFix |->
                  "Use toContainText() with a partial match or toMatch() with a regex.",
              priority |-> "high"]

SelectorFix ==
    "1. Inspect the DOM in headed mode.\n"
    \o "2. Increase waitFor timeout if the element loads slowly.\n"
    \o "3. Prefer getByRole() / getByText() over CSS selectors."

\* faulty variant: sel[1] is read without the null check, so a miss throws
selectorCase_NoNullCheck(message) ==
    LET sel == selectorMatch(message)
    IN  IF sel = <<>> THEN Thrown
        ELSE [rootCause |->
                  "Selector " \o sel[1] \o " matched no visible element. "
                  \o "Possible causes: DOM changed, element loads async, modal blocking it.",
              suggestedFix |-> SelectorFix,
              priority |-> "critical"]

\* case FailureType.SELECTOR_NOT_FOUND
selectorCase(message) ==
    LET sel == selectorMatch(message)
    IN  [rootCause |->
             "Selector " \o GroupOr(sel, "unknown") \o " matched no visible element. "
             \o "Possible causes: DOM changed, element loads async, modal blocking it.",
         suggestedFix |-> SelectorFix,
         priority |-> "critical"]

\* case FailureType.TIMEOUT
timeoutCase(message) ==
    LET ms == GroupOr(timeoutMatch(message), "?")
    IN  [rootCause |->
             "Timed out after " \o ms
             \o "ms -- page or element did not reach expected state.",
         suggestedFix |->
             "1. Increase timeout.\n"
             \o "2. Add page.waitForLoadState(\"networkidle\").\n"
             \o "3. Check the screenshot for actual page state.",
         priority |-> "high"]

\* case FailureType.NAVIGATION_ERROR
navigationCase ==
    [rootCause |->
         "Navigation failed -- redirect, URL encoding mismatch, or bot protection.",
     suggestedFix |->
         "1. Broaden the URL pattern.\n"
         \o "2. Check for CAPTCHA / error pages in the screenshot.",
     priority |-> "critical"]

\* case FailureType.NETWORK_ERROR
networkCase ==
    [rootCause |-> "Network-level error -- browser could not reach the server.",
     suggestedFix |->
         "1. Verify the site is reachable.\n"
         \o "2. Check DNS / proxy / firewall settings.\n"
         \o "3. Add retry logic for transient failures.",
     priority |-> "critical"]

\* default
defaultCase ==
    [rootCause |-> "Unclassified failure -- does not match known patterns.",
     suggestedFix |-> "Run in debug mode and review the full stack trace.",
     priority |-> "medium"]

\* faulty variant: the TIMEOUT case is missing and falls to the default
analyzeWithRules_NoTimeoutCase(type, message) ==
    CASE type = "ASSERTION_MISMATCH" -> assertionCase(message)
      [] type = "SELECTOR_NOT_FOUND" -> selectorCase(message)
      [] type = "NAVIGATION_ERROR" -> navigationCase
      [] type = "NETWORK_ERROR" -> networkCase
      [] OTHER -> defaultCase

analyzeWithRules(type, message) ==
    CASE type = "ASSERTION_MISMATCH" -> assertionCase(message)
      [] type = "SELECTOR_NOT_FOUND" -> selectorCase(message)
      [] type = "TIMEOUT" -> timeoutCase(message)
      [] type = "NAVIGATION_ERROR" -> navigationCase
      [] type = "NETWORK_ERROR" -> networkCase
      [] OTHER -> defaultCase

-----------------------------------------------------------------------------
(* The diagnoser applied to every FailureType and to messages put together *)
(* from the lines the test runner prints, well formed and not.             *)

Values ==
    {"Nikon Z30", "Nikon NIKKOR Z 400mm f/2.8 TC VR S", "Canon EOS R5",
     "Nikon\tZ50", "Nikon", "Canon\tEOS"}

ExpectedTexts ==
    {"Expected substring: \"" \o v \o "\"\n" : v \in Values}
    \cup {"Expected substring: \"",
          "Expected substring: \"\"\n",
          "expected SUBSTRING:\"Nikon Z30\"\n",
          "Expected string: \"Nikon Z30\"\n"}

ReceivedTexts ==
    {"Received string: \"" \o v \o "\"\n" : v \in Values}
    \cup {"Received string: Nikon\n",
          "Received string:\t\"Canon EOS R5\"\n"}

SelectorTexts == {"waiting for locator('h1')\n", "getByRole()", "locator("}

TimeoutTexts == {"Timeout 5000ms exceeded.\n", "Timeout: 5000ms\n", "TIMEOUT 30000MS"}

RuleFragments == ExpectedTexts \cup ReceivedTexts \cup SelectorTexts \cup TimeoutTexts

InitRules ==
    /\ pc = "input"
    /\ errorMessage = ""
    /\ stack = <<>>
    /\ failureType = "none"
    /\ rules = NoRules
    /\ nfrags = 0
    /\ edits = 0
    /\ report = <<>>
    /\ open = 0
    /\ nodes = 0
    /\ failures = <<>>
    /\ NoRun

AppendRuleText(f) ==
    /\ pc = "input"
    /\ nfrags < MaxFrags
    /\ errorMessage' = errorMessage \o f
    /\ nfrags' = nfrags + 1
    /\ UNCHANGED <<pc, stack, failureType, rules, edits, treeVars, runVars>>

Analyze(type) ==
    /\ pc = "input"
    /\ failureType' = type
    /\ rules' = analyzeWithRules(type, errorMessage)
    /\ pc' = "analyzed"
    /\ UNCHANGED <<errorMessage, stack, nfrags, edits, treeVars, runVars>>

NextRules ==
    \/ \E f \in RuleFragments : AppendRuleText(f)
    \/ \E type \in FailureType : Analyze(type)

SpecRules == InitRules /\ [][NextRules]_vars

-----------------------------------------------------------------------------
(* Claims about analyzeWithRules                                           *)

\* C6: SELECTOR_NOT_FOUND, NAVIGATION_ERROR and NETWORK_ERROR yield critical,
\* TIMEOUT yields high, UNKNOWN yields medium, ASSERTION_MISMATCH yields
\* medium or high, for every message; low is never produced.
C6_PriorityTable ==
    pc = "analyzed" =>
        /\ failureType \in {"SELECTOR_NOT_FOUND", "NAVIGATION_ERROR", "NETWORK_ERROR"}
           => rules.priority = "critical"
        /\ failureType = "TIMEOUT" => rules.priority = "high"
        /\ failureType = "UNKNOWN" => rules.priority = "medium"
        /\ failureType = "ASSERTION_MISMATCH" => rules.priority \in {"medium", "high"}
        /\ rules.priority # "low"

\* a TIMEOUT diagnosis of a message that states its duration
C6_Witness ==
    /\ pc = "analyzed"
    /\ failureType = "TIMEOUT"
    /\ rules.priority = "high"
    /\ errorMessage = "Timeout 5000ms exceeded.\n"

\* C7: for every FailureType and every message, the empty one and those with
\* missing or malformed substrings included, analyzeWithRules returns (does
\* not throw) a non-empty rootCause, a non-empty suggestedFix and a priority
\* of the fixed set; the selector defaults to 'unknown', the duration to '?'.
C7_NeverThrows ==
    pc = "analyzed" =>
        /\ rules # Thrown
        /\ rules.rootCause # ""
        /\ rules.suggestedFix # ""
        /\ rules.priority \in Priorities
        /\ (failureType = "SELECTOR_NOT_FOUND" /\ selectorMatch(errorMessage) = <<>>)
           => includes(rules.rootCause, "Selector unknown matched")
        /\ (failureType = "TIMEOUT" /\ timeoutMatch(errorMessage) = <<>>)
           => includes(rules.rootCause, "Timed out after ?ms")

\* a selector diagnosis of a message whose selector text is cut short
C7_Witness ==
    /\ pc = "analyzed"
    /\ failureType = "SELECTOR_NOT_FOUND"
    /\ errorMessage = "locator("
    /\ includes(rules.rootCause, "Selector unknown matched")

\* the first token of a value, cut at the first space
LeadingToken(v) ==
    IF \E i \in 1..Len(v) : CharAt(v, i) = " "
    THEN SubSeq(v, 1, (CHOOSE i \in 1..Len(v) :
                          CharAt(v, i) = " " /\ \A j \in 1..(i - 1) : CharAt(v, j) # " ") - 1)
    ELSE v

\* C8: for ASSERTION_MISMATCH the priority is medium (the data-drift
\* diagnosis with its three ordered fix options) exactly when an expected and
\* a received value are both extracted and their leading tokens are equal;
\* in every other case it is high.
C8_SameFamilyDecision ==
    (pc = "analyzed" /\ failureType = "ASSERTION_MISMATCH") =>
        LET em == expectedMatch(errorMessage)
            rm == receivedMatch(errorMessage)
            same == em # <<>> /\ rm # <<>> /\ LeadingToken(em[1]) = LeadingToken(rm[1])
        IN  /\ same => /\ rules.priority = "medium"
                       /\ rules.suggestedFix = DriftFix
                       /\ includes(rules.rootCause, "Data-dependent assertion failure")
            /\ ~same => rules.priority = "high"

\* "Nikon Z30" against "Nikon NIKKOR Z 400mm f/2.8 TC VR S": medium
C8_Witness ==
    /\ pc = "analyzed"
    /\ failureType = "ASSERTION_MISMATCH"
    /\ expectedMatch(errorMessage) = <<"Nikon Z30">>
    /\ receivedMatch(errorMessage) = <<"Nikon NIKKOR Z 400mm f/2.8 TC VR S">>
    /\ rules.priority = "medium"

\* the first token of a value, cut at the first whitespace character
FirstWhitespaceToken(v) == SubSeq(v, 1, RunEndNot(v, 1, WhiteSpace) - 1)

\* C9: whatever whitespace character ends the first token of the expected and
\* of the received value, the diagnosis is the medium data-drift one if and
\* only if those first whitespace-delimited tokens are equal.
C9_WhitespaceTieBreak ==
    (pc = "analyzed" /\ failureType = "ASSERTION_MISMATCH") =>
        LET em == expectedMatch(errorMessage)
            rm == receivedMatch(errorMessage)
        IN  (em # <<>> /\ rm # <<>>) =>
                (rules.priority = "medium"
                    <=> FirstWhitespaceToken(em[1]) = FirstWhitespaceToken(rm[1]))

-----------------------------------------------------------------------------
(* extractFailures                                                         *)

\* faulty variant: the titles joined without dropping the empty ones
suitePath_NoFilter(parentTitle, title) == parentTitle \o " > " \o title

\* [parentTitle, suite.title].filter(Boolean).join(" > ")
suitePath(parentTitle, title) ==
    IF parentTitle = "" THEN title
    ELSE IF title = "" THEN parentTitle
    ELSE parentTitle \o " > " \o title

\* faulty variant: a test counts as failed when any of its attempts failed
lastFailed_AnyAttempt(test) ==
    \E i \in 1..Len(test.results) : test.results[i].status = "failed"

\* const last = test.results[test.results.length - 1]; last?.status === "failed"
lastFailed(test) ==
    /\ test.results # <<>>
    /\ test.results[Len(test.results)].status = "failed"

\* for (const test of spec.tests): the failures pushed for one spec
specFailures(spec, path) ==
    LET failing == SelectSeq(spec.tests, lastFailed)
    IN  [i \in 1..Len(failing) |->
            [testName |-> spec.title,
             suiteName |-> path,
             filePath |-> spec.file,
             line |-> spec.line,
             result |-> failing[i].results[Len(failing[i].results)]]]

\* for (const spec of suite.specs ?? []): the failures pushed for a list of specs
RECURSIVE specsFailures(_, _)
specsFailures(specs, path) ==
    IF specs = <<>> THEN <<>>
    ELSE specFailures(Head(specs), path) \o specsFailures(Tail(specs), path)

\* faulty variant: the child suites are walked before the suite's own specs
RECURSIVE walk_SuitesFirst(_, _)
walk_SuitesFirst(suites, parentTitle) ==
    IF suites = <<>> THEN <<>>
    ELSE LET suite == Head(suites)
             path == suitePath(parentTitle, suite.title)
         IN  walk_SuitesFirst(suite.suites, path)
             \o specsFailures(suite.specs, path)
             \o walk_SuitesFirst(Tail(suites), parentTitle)

\* walk(suites, parentTitle): the failures pushed, in the order pushed
RECURSIVE walk(_, _)
walk(suites, parentTitle) ==
    IF suites = <<>> THEN <<>>
    ELSE LET suite == Head(suites)
             path == suitePath(parentTitle, suite.title)
         IN  specsFailures(suite.specs, path)
             \o walk(suite.suites, path)
             \o walk(Tail(suites), parentTitle)

extractFailures(suites) == walk(suites, "")

-----------------------------------------------------------------------------
(* The extractor applied to the trees the JSON reporter can write: suites  *)
(* opened inside one another, with specs, tests and attempts.              *)

MaxNodes == 6

\* a suite has no title (the root of a file, an anonymous describe) or a title
SuiteTitles(id) == {"", "S" \o ToString(id)}

Statuses == {"passed", "failed", "timedOut"}

NewSuite(title) == [title |-> title, specs |-> <<>>, suites |-> <<>>]

NewSpec(id) ==
    [title |-> "test " \o ToString(id), file |-> "a.spec.ts", line |-> id, tests |-> <<>>]

NewTest == [results |-> <<>>]

NewResult(status, id) == [status |-> status, duration |-> id]

\* the suite at depth d of the chain of last children
RECURSIVE OpenSuiteAt(_, _)
OpenSuiteAt(suites, d) ==
    IF d = 1 THEN suites[Len(suites)]
    ELSE OpenSuiteAt(suites[Len(suites)].suites, d - 1)

\* suites with the suite at depth d of the chain of last children replaced
RECURSIVE ReplaceOpen(_, _, _)
ReplaceOpen(suites, d, new) ==
    IF d = 1 THEN [suites EXCEPT ![Len(suites)] = new]
    ELSE [suites EXCEPT ![Len(suites)].suites = ReplaceOpen(@, d - 1, new)]

InitExtract ==
    /\ pc = "report"
    /\ errorMessage = ""
    /\ stack = <<>>
    /\ failureType = "none"
    /\ rules = NoRules
    /\ nfrags = 0
    /\ edits = 0
    /\ report = <<>>
    /\ open = 0
    /\ nodes = 0
    /\ failures = <<>>
    /\ NoRun

textVars == <<errorMessage, stack, failureType, rules, nfrags, edits>>

OpenSuite(title) ==
    /\ pc = "report"
    /\ nodes < MaxNodes
    /\ report' =
         IF open = 0 THEN Append(report, NewSuite(title))
         ELSE LET cur == OpenSuiteAt(report, open)
              IN  ReplaceOpen(report, open,
                      [cur EXCEPT !.suites = Append(@, NewSuite(title))])
    /\ open' = open + 1
    /\ nodes' = nodes + 1
    /\ UNCHANGED <<pc, failures, textVars, runVars>>

CloseSuite ==
    /\ pc = "report"
    /\ open > 0
    /\ open' = open - 1
    /\ UNCHANGED <<pc, report, nodes, failures, textVars, runVars>>

AddSpec ==
    /\ pc = "report"
    /\ nodes < MaxNodes
    /\ open > 0
    /\ LET cur == OpenSuiteAt(report, open)
       IN  /\ cur.suites = <<>>
           /\ report' = ReplaceOpen(report, open,
                  [cur EXCEPT !.specs = Append(@, NewSpec(nodes + 1))])
    /\ nodes' = nodes + 1
    /\ UNCHANGED <<pc, open, failures, textVars, runVars>>

AddTest ==
    /\ pc = "report"
    /\ nodes < MaxNodes
    /\ open > 0
    /\ LET cur == OpenSuiteAt(report, open)
       IN  /\ cur.suites = <<>>
           /\ cur.specs # <<>>
           /\ report' = ReplaceOpen(report, open,
                  [cur EXCEPT !.specs[Len(cur.specs)].tests = Append(@, NewTest)])
    /\ nodes' = nodes + 1
    /\ UNCHANGED <<pc, open, failures, textVars, runVars>>

AddResult(status) ==
    /\ pc = "report"
    /\ nodes < MaxNodes
    /\ open > 0
    /\ LET cur == OpenSuiteAt(report, open)
       IN  /\ cur.suites = <<>>
           /\ cur.specs # <<>>
           /\ cur.specs[Len(cur.specs)].tests # <<>>
           /\ LET k == Len(cur.specs)
                  t == Len(cur.specs[k].tests)
              IN  report' = ReplaceOpen(report, open,
                      [cur EXCEPT !.specs[k].tests[t].results =
                                      Append(@, NewResult(status, nodes + 1))])
    /\ nodes' = nodes + 1
    /\ UNCHANGED <<pc, open, failures, textVars, runVars>>

Extract ==
    /\ pc = "report"
    /\ open = 0
    /\ failures' = extractFailures(report)
    /\ pc' = "extracted"
    /\ UNCHANGED <<report, open, nodes, textVars, runVars>>

NextExtract ==
    \/ \E title \in SuiteTitles(nodes + 1) : OpenSuite(title)
    \/ CloseSuite
    \/ AddSpec
    \/ AddTest
    \/ \E status \in Statuses : AddResult(status)
    \/ Extract

SpecExtract == InitExtract /\ [][NextExtract]_vars

-----------------------------------------------------------------------------
(* The extractor applied to trees grown a whole spec at a time: each spec  *)
(* holds one test with one attempt, so that several failing specs at       *)
(* different depths fit in a small tree.                                   *)

LeafStatuses == {"passed", "failed"}

\* a Spec with one TestEntry that ran once
NewLeaf(status, id) ==
    [NewSpec(id) EXCEPT !.tests = <<[results |-> <<NewResult(status, id)>>]>>]

AddLeaf(status) ==
    /\ pc = "report"
    /\ nodes < MaxNodes
    /\ open > 0
    /\ LET cur == OpenSuiteAt(report, open)
       IN  /\ cur.suites = <<>>
           /\ report' = ReplaceOpen(report, open,
                  [cur EXCEPT !.specs = Append(@, NewLeaf(status, nodes + 1))])
    /\ nodes' = nodes + 1
    /\ UNCHANGED <<pc, open, failures, textVars, runVars>>

NextOrder ==
    \/ \E title \in SuiteTitles(nodes + 1) : OpenSuite(title)
    \/ CloseSuite
    \/ \E status \in LeafStatuses : AddLeaf(status)
    \/ Extract

SpecOrder == InitExtract /\ [][NextOrder]_vars

-----------------------------------------------------------------------------
(* Claims about extractFailures                                            *)

\* every Spec of the tree, at any depth
RECURSIVE AllSpecs(_)
AllSpecs(suites) ==
    UNION {{suites[i].specs[k] : k \in DOMAIN suites[i].specs}
           \cup AllSpecs(suites[i].suites) : i \in DOMAIN suites}

\* every TestEntry of the tree: <<its spec, its index among the spec's tests>>
TestEntries(suites) ==
    UNION {{<<sp, t>> : t \in DOMAIN sp.tests} : sp \in AllSpecs(suites)}

EntryResults(e) == e[1].tests[e[2]].results

FinalAttemptFailed(e) ==
    /\ Len(EntryResults(e)) > 0
    /\ EntryResults(e)[Len(EntryResults(e))].status = "failed"

\* C10: extractFailures returns exactly one RawFailure, carrying the last
\* TestResult, for each TestEntry at any depth whose last TestResult is
\* "failed", and none for any other TestEntry (last attempt not failed, or no
\* results at all).
C10_OnePerFailedEntry ==
    pc = "extracted" =>
        LET failed == {e \in TestEntries(report) : FinalAttemptFailed(e)}
        IN  /\ \A e \in failed :
                 Cardinality({i \in DOMAIN failures :
                                 /\ failures[i].result = EntryResults(e)[Len(EntryResults(e))]
                                 /\ failures[i].testName = e[1].title
                                 /\ failures[i].line = e[1].line}) = 1
            /\ Len(failures) = Cardinality(failed)

\* a spec two suites deep whose test failed, was retried and failed again
C10_Witness ==
    /\ pc = "extracted"
    /\ Len(report) = 1
    /\ Len(report[1].suites) = 1
    /\ Len(report[1].suites[1].specs) = 1
    /\ Len(report[1].suites[1].specs[1].tests) = 1
    /\ Len(report[1].suites[1].specs[1].tests[1].results) = 2
    /\ report[1].suites[1].specs[1].tests[1].results[1].status = "failed"
    /\ report[1].suites[1].specs[1].tests[1].results[2].status = "failed"
    /\ Len(failures) = 1
    /\ failures[1].result = report[1].suites[1].specs[1].tests[1].results[2]

-----------------------------------------------------------------------------
(* Claims about the order of the extracted failures and their suite names  *)

\* every TestEntry of the tree with its place in it: the indices of its
\* ancestor suites from the top, then 0 (the specs of a suite come before its
\* child suites, which are numbered from 1), the index of its spec and its own
\* index; and the titles of its ancestor suites, outermost first
RECURSIVE EntryPlaces(_, _, _)
EntryPlaces(suites, prefix, titles) ==
    UNION {LET s == suites[i]
               here == Append(prefix, i)
               names == Append(titles, s.title)
           IN  UNION {{[path |-> here \o <<0, k, t>>, titles |-> names,
                        spec |-> s.specs[k], t |-> t] :
                           t \in DOMAIN s.specs[k].tests} : k \in DOMAIN s.specs}
               \cup EntryPlaces(s.suites, here, names)
           : i \in DOMAIN suites}

\* lexicographic order on places
RECURSIVE PlaceBefore(_, _)
PlaceBefore(p, q) ==
    /\ q # <<>>
    /\ \/ p = <<>>
       \/ Head(p) < Head(q)
       \/ Head(p) = Head(q) /\ PlaceBefore(Tail(p), Tail(q))

\* the place of the TestEntry a RawFailure was made from
PlaceOf(places, f) ==
    CHOOSE e \in places :
        /\ e.spec.line = f.line
        /\ e.spec.tests[e.t].results # <<>>
        /\ e.spec.tests[e.t].results[Len(e.spec.tests[e.t].results)] = f.result

\* C11: the list extractFailures returns is in depth-first traversal order:
\* suites in listed order, within a suite its specs in listed order and then
\* its child suites recursively; extracting again from the same tree gives the
\* identical list.
C11_DepthFirstOrder ==
    pc = "extracted" =>
        LET places == EntryPlaces(report, <<>>, <<>>)
        IN  /\ \A i, j \in DOMAIN failures :
                 i < j => PlaceBefore(PlaceOf(places, failures[i]).path,
                                      PlaceOf(places, failures[j]).path)
            /\ extractFailures(report) = failures

\* a failing spec of a suite, one of its child suite and one of the next
\* top-level suite, extracted in that order
C11_Witness ==
    /\ pc = "extracted"
    /\ Len(report) = 2
    /\ Len(report[1].specs) = 1
    /\ Len(report[1].suites) = 1
    /\ Len(report[1].suites[1].specs) = 1
    /\ Len(report[2].specs) = 1
    /\ Len(failures) = 3
    /\ failures[1].line = report[1].specs[1].line
    /\ failures[2].line = report[1].suites[1].specs[1].line
    /\ failures[3].line = report[2].specs[1].line

\* titles.filter(Boolean).join(" > ")
RECURSIVE JoinTitles(_)
JoinTitles(titles) ==
    IF titles = <<>> THEN ""
    ELSE LET rest == JoinTitles(Tail(titles))
         IN  IF Head(titles) = "" THEN rest
             ELSE IF rest = "" THEN Head(titles)
             ELSE Head(titles) \o " > " \o rest

Separator == " > "

StartsWith(s, p) == Len(s) >= Len(p) /\ SubSeq(s, 1, Len(p)) = p

EndsWith(s, p) == Len(s) >= Len(p) /\ SubSeq(s, Len(s) - Len(p) + 1, Len(s)) = p

\* C12: the suiteName of every RawFailure is the titles of all its ancestor
\* suites, outermost first, the empty titles skipped, joined by " > ", with no
\* leading, trailing or doubled separator.
C12_SuiteNameJoined ==
    pc = "extracted" =>
        LET places == EntryPlaces(report, <<>>, <<>>)
        IN  \A i \in DOMAIN failures :
                LET name == failures[i].suiteName
                IN  /\ name = JoinTitles(PlaceOf(places, failures[i]).titles)
                    /\ ~StartsWith(name, Separator)
                    /\ ~EndsWith(name, Separator)
                    /\ ~includes(name, Separator \o Separator)

\* a failure under a titled suite, inside an untitled one, inside a titled one
C12_Witness ==
    /\ pc = "extracted"
    /\ Len(report) = 1
    /\ report[1].title # ""
    /\ Len(report[1].suites) = 1
    /\ report[1].suites[1].title = ""
    /\ Len(report[1].suites[1].suites) = 1
    /\ report[1].suites[1].suites[1].title # ""
    /\ Len(failures) = 1
    /\ failures[1].suiteName =
           report[1].title \o " > " \o report[1].suites[1].suites[1].title

-----------------------------------------------------------------------------
(* generateReport                                                          *)

\* String.prototype.toUpperCase, one character
UpperChar(c) == IF c \in LowerChars THEN UpperMap[c] ELSE c

RECURSIVE toUpperCase(_)
toUpperCase(s) ==
    IF s = "" THEN "" ELSE UpperChar(CharAt(s, 1)) \o toUpperCase(Drop(s, 1))

\* String.prototype.startsWith
startsWith(s, p) == Len(s) >= Len(p) /\ SubSeq(s, 1, Len(p)) = p

\* (num / den).toFixed(1) for num >= 0 and den > 0: the nearest tenth, the
\* larger one when two are equally near.  The quotient the code rounds is a
\* double; it rounds as the exact quotient does except next to a tie.
toFixed1(num, den) ==
    LET tenths == (20 * num + den) \div (2 * den)
    IN  ToString(tenths \div 10) \o "." \o ToString(tenths % 10)

\* faulty variant: the rate computed without the test for totalTests > 0
passRate_NoGuard(total, passed) ==
    IF total = 0 THEN (IF passed = 0 THEN "NaN" ELSE "Infinity")
    ELSE toFixed1(passed * 100, total)

\* totalTests > 0 ? ((passedTests / totalTests) * 100).toFixed(1) : "0.0"
passRate(total, passed) ==
    IF total > 0 THEN toFixed1(passed * 100, total) ELSE "0.0"

\* the lines the document starts with
headerLines(failed, total, passed, duration, now) ==
    <<"# AI Test Failure Analysis Report",
      "",
      "> Generated on " \o now,
      "",
      "| Metric | Value |",
      "|--------|-------|",
      "| Total Tests | " \o ToString(total) \o " |",
      "| Passed | " \o ToString(passed) \o " |",
      "| Failed | " \o ToString(failed) \o " |",
      "| Pass Rate | " \o passRate(total, passed) \o "% |",
      "| Duration | " \o toFixed1(duration, 1000) \o "s |",
      "">>

\* the keys of the Map counts, in the order they were first set
RECURSIVE countsKeys(_)
countsKeys(list) ==
    IF list = <<>> THEN <<>>
    ELSE LET before == countsKeys(SubSeq(list, 1, Len(list) - 1))
             type == list[Len(list)].failureType
         IN  IF \E k \in DOMAIN before : before[k] = type THEN before
             ELSE Append(before, type)

\* counts.get(type) after the loop: the analyses of the type, in input order
countsGet(list, type) ==
    LET OfType(a) == a.failureType = type IN SelectSeq(list, OfType)

priorityOrder == [critical |-> 0, high |-> 1, medium |-> 2, low |-> 3]

\* items.sort((a, b) => priorityOrder[a.priority] - priorityOrder[b.priority]):
\* a stable sort
sortByPriority(items) ==
    LET Ranked(r) == LET AtRank(a) == priorityOrder[a.priority] = r
                     IN  SelectSeq(items, AtRank)
    IN  Ranked(0) \o Ranked(1) \o Ranked(2) \o Ranked(3)

\* faulty variant: the first item of the type, without the sort
topItem_First(items) == items[1]

\* const top = items.sort(...)[0]
topItem(items) == sortByPriority(items)[1]

summaryRow(type, items) ==
    "| " \o type \o " | " \o ToString(Len(items)) \o " | "
        \o toUpperCase(topItem(items).priority) \o " |"

\* the type summary table
summaryLines(list) ==
    LET keys == countsKeys(list)
    IN  <<"## Failures by Type", "", "| Type | Count | Priority |",
          "|------|-------|----------|">>
        \o [k \in DOMAIN keys |-> summaryRow(keys[k], countsGet(list, keys[k]))]
        \o <<"", "---", "">>

\* if (a.llmAnalysis): present and not the empty string
hasLlmAnalysis(a) == a.llmAnalysis # <<>> /\ a.llmAnalysis[1] # ""

\* the three backquotes that open and close a block of code, written ~~~
\* (a string of this module cannot hold a backquote)
Fence == "~~~"

\* the lines pushed for analyses[i]
sectionLines(a, i) ==
    <<"## Failure " \o ToString(i) \o ": " \o a.testName,
      "",
      "| Field | Value |",
      "|-------|-------|",
      "| Suite | " \o a.suiteName \o " |",
      "| File | " \o a.filePath \o ":" \o ToString(a.line) \o " |",
      "| Duration | " \o toFixed1(a.duration, 1000) \o "s |",
      "| Type | " \o a.failureType \o " |",
      "| Priority | **" \o toUpperCase(a.priority) \o "** |",
      "",
      "### Error",
      Fence,
      SubSeq(a.errorMessage, 1, IF Len(a.errorMessage) < 500 THEN Len(a.errorMessage) ELSE 500),
      Fence,
      "",
      "### Source Context",
      Fence \o "typescript",
      a.sourceContext,
      Fence,
      "",
      "### Root Cause",
      a.rootCause,
      "",
      "### Suggested Fix",
      a.suggestedFix,
      "">>
    \o (IF a.screenshots # <<>>
        THEN <<"### Screenshots">>
             \o [k \in DOMAIN a.screenshots |-> "- " \o a.screenshots[k]]
             \o <<"">>
        ELSE <<>>)
    \o (IF hasLlmAnalysis(a)
        THEN <<"### Gemini Analysis", "", a.llmAnalysis[1], "">>
        ELSE <<>>)
    \o <<"---", "">>

\* for (let i = 0; i < analyses.length; i++): the sections from the i-th on
RECURSIVE sectionsFrom(_, _)
sectionsFrom(list, i) ==
    IF i > Len(list) THEN <<>>
    ELSE sectionLines(list[i], i) \o sectionsFrom(list, i + 1)

\* faulty variant: no return after the all-passed line
reportLines_NoEarlyReturn(list, total, passed, duration, now) ==
    headerLines(Len(list), total, passed, duration, now)
    \o (IF list = <<>> THEN <<"## All tests passed!">> ELSE <<>>)
    \o summaryLines(list) \o sectionsFrom(list, 1)

\* the array lines at the return; the document is lines.join("\n")
reportLines(list, total, passed, duration, now) ==
    headerLines(Len(list), total, passed, duration, now)
    \o (IF list = <<>> THEN <<"## All tests passed!">>
        ELSE summaryLines(list) \o sectionsFrom(list, 1))

\* faulty variant: the sort applied to the list passed in
generateReport_SortsInput(list, total, passed, duration, now) ==
    [md |-> reportLines(sortByPriority(list), total, passed, duration, now),
     analyses |-> sortByPriority(list)]

\* the document returned, and the list passed in as the call leaves it: the
\* sort is applied to the arrays held by counts, never to analyses
generateReport(list, total, passed, duration, now) ==
    [md |-> reportLines(list, total, passed, duration, now),
     analyses |-> list]

-----------------------------------------------------------------------------
(* generateReport applied to lists of analyses and to run counters         *)

MaxAnalyses == 2

MaxTests == 3

ReportTypes == {"TIMEOUT", "ASSERTION_MISMATCH", "UNKNOWN"}

\* new Date().toISOString() at the call
GeneratedAt == "2026-01-01T00:00:00.000Z"

\* the id-th FailureAnalysis of a list
NewAnalysis(type, priority, id) ==
    [testName |-> "test " \o ToString(id),
     suiteName |-> "Search",
     filePath |-> "a.spec.ts",
     line |-> id,
     duration |-> 1200 * id,
     errorMessage |-> "Timeout 5000ms exceeded.",
     stackTrace |-> "",
     failureType |-> type,
     rootCause |-> "cause " \o ToString(id),
     suggestedFix |-> "fix " \o ToString(id),
     priority |-> priority,
     sourceContext |-> "(source file not found)",
     screenshots |-> IF id % 2 = 1 THEN <<"shot" \o ToString(id) \o ".png">> ELSE <<>>,
     llmAnalysis |-> IF id % 2 = 0 THEN <<"Looks flaky.">> ELSE <<>>]

InitReport ==
    /\ pc = "analyses"
    /\ errorMessage = ""
    /\ stack = <<>>
    /\ failureType = "none"
    /\ rules = NoRules
    /\ nfrags = 0
    /\ edits = 0
    /\ report = <<>>
    /\ open = 0
    /\ nodes = 0
    /\ failures = <<>>
    /\ analyses = <<>>
    /\ totalTests \in 0..MaxTests
    /\ passedTests \in 0..totalTests
    /\ totalDuration = 1234 * totalTests
    /\ md = <<>>
    /\ apiKey = FALSE
    /\ inflight = {}
    /\ outcomes = <<>>
    /\ written = <<>>
    /\ printed = <<>>
    /\ NoIngest
    /\ NoSource

AddAnalysis(type, priority) ==
    /\ pc = "analyses"
    /\ Len(analyses) < MaxAnalyses
    /\ analyses' = Append(analyses, NewAnalysis(type, priority, Len(analyses) + 1))
    /\ UNCHANGED <<pc, totalTests, passedTests, totalDuration, md,
                   textVars, treeVars, enrichVars, sysVars>>

Generate ==
    /\ pc = "analyses"
    /\ LET r == generateReport(analyses, totalTests, passedTests, totalDuration,
                               GeneratedAt)
       IN  /\ md' = r.md
           /\ analyses' = r.analyses
    /\ pc' = "generated"
    /\ UNCHANGED <<totalTests, passedTests, totalDuration,
                   textVars, treeVars, enrichVars, sysVars>>

NextReport ==
    \/ \E type \in ReportTypes, priority \in Priorities : AddAnalysis(type, priority)
    \/ Generate

SpecReport == InitReport /\ [][NextReport]_vars

-----------------------------------------------------------------------------
(* Claims about generateReport                                             *)

\* the lines of a document that start with a prefix, in order
LinesWith(lines, prefix) ==
    LET Starts(l) == startsWith(l, prefix) IN SelectSeq(lines, Starts)

\* what stands between a prefix and a suffix of a line
Between(l, prefix, suffix) == SubSeq(l, Len(prefix) + 1, Len(l) - Len(suffix))

IsNumeric(s) == s # "" /\ \A i \in 1..Len(s) : CharAt(s, i) \in Digits \cup {"."}

\* a number of tenths written with one decimal
Tenths(n) == ToString(n \div 10) \o "." \o ToString(n % 10)

Distance(a, b) == IF a < b THEN b - a ELSE a - b

\* C13: generateReport renders the pass rate as passedTests / totalTests, as a
\* percentage to one decimal, when totalTests > 0 and as 0 when totalTests is
\* 0; what it renders is always a number.
C13_PassRate ==
    pc = "generated" =>
        LET found == LinesWith(md, "| Pass Rate | ")
        IN  /\ Len(found) = 1
            /\ EndsWith(found[1], "% |")
            /\ LET rate == Between(found[1], "| Pass Rate | ", "% |")
               IN  /\ IsNumeric(rate)
                   /\ totalTests = 0 => rate = "0.0"
                   /\ totalTests > 0 =>
                        \E n \in 0..1000 :
                            /\ rate = Tenths(n)
                            /\ 2 * Distance(n * totalTests, 1000 * passedTests)
                                   <= totalTests

\* a report generated for a run that counted no test
C13_Witness ==
    /\ pc = "generated"
    /\ totalTests = 0
    /\ LinesWith(md, "| Pass Rate | ") = <<"| Pass Rate | 0.0% |">>

\* the rows of the type summary table: the lines after its ruler, up to the
\* first empty line
SummaryRows(lines) ==
    LET ruler == CHOOSE i \in DOMAIN lines : lines[i] = "|------|-------|----------|"
        stop == CHOOSE i \in DOMAIN lines :
                    /\ i > ruler
                    /\ lines[i] = ""
                    /\ \A k \in (ruler + 1)..(i - 1) : lines[k] # ""
    IN  SubSeq(lines, ruler + 1, stop - 1)

TypesPresent(list) == {list[i].failureType : i \in DOMAIN list}

FirstSeen(list, type) ==
    CHOOSE i \in DOMAIN list :
        /\ list[i].failureType = type
        /\ \A k \in 1..(i - 1) : list[k].failureType # type

\* critical > high > medium > low
PriorityRanking == <<"critical", "high", "medium", "low">>

RankOf(p) == CHOOSE r \in DOMAIN PriorityRanking : PriorityRanking[r] = p

\* C14: the type summary table has exactly one row for each FailureType
\* present in the analyses, the rows in the order the types are first seen;
\* the count of a row is the number of failures of its type and its priority
\* the highest among them (critical > high > medium > low).
C14_TypeSummary ==
    (pc = "generated" /\ analyses # <<>>) =>
        LET rows == SummaryRows(md)
            types == TypesPresent(analyses)
        IN  /\ Len(rows) = Cardinality(types)
            /\ \A type \in types :
                 LET members == {i \in DOMAIN analyses : analyses[i].failureType = type}
                     place == Cardinality({u \in types :
                                  FirstSeen(analyses, u) <= FirstSeen(analyses, type)})
                     best == CHOOSE p \in Priorities :
                                 /\ \E i \in members : analyses[i].priority = p
                                 /\ \A i \in members :
                                        RankOf(p) <= RankOf(analyses[i].priority)
                 IN  rows[place] = "| " \o type \o " | "
                                       \o ToString(Cardinality(members)) \o " | "
                                       \o toUpperCase(best) \o " |"

\* one type seen twice, its higher priority second: one row, counting both
C14_Witness ==
    /\ pc = "generated"
    /\ Len(analyses) = 2
    /\ analyses[1].failureType = "TIMEOUT"
    /\ analyses[2].failureType = "TIMEOUT"
    /\ analyses[1].priority = "medium"
    /\ analyses[2].priority = "high"
    /\ SummaryRows(md) = <<"| TIMEOUT | 2 | HIGH |">>

\* C15: generateReport renders the failure sections ("Failure 1", "Failure
\* 2", ...) in the order of the list passed in, and the call leaves that list
\* and its records unchanged.
C15_SectionsInInputOrder ==
    [][(pc = "analyses" /\ pc' = "generated") =>
          /\ analyses' = analyses
          /\ LinesWith(md', "## Failure ") =
                 [i \in DOMAIN analyses |->
                     "## Failure " \o ToString(i) \o ": " \o analyses[i].testName]
          /\ LinesWith(md', "| File | ") =
                 [i \in DOMAIN analyses |->
                     "| File | " \o analyses[i].filePath \o ":"
                         \o ToString(analyses[i].line) \o " |"]
          /\ LinesWith(md', "| Priority | **") =
                 [i \in DOMAIN analyses |->
                     "| Priority | **" \o toUpperCase(analyses[i].priority) \o "** |"]
      ]_vars

\* a report of two failures of one type, the lower priority first
C15_Witness ==
    /\ pc = "generated"
    /\ Len(analyses) = 2
    /\ analyses[1].failureType = analyses[2].failureType
    /\ analyses[1].priority = "low"
    /\ analyses[2].priority = "critical"
    /\ LinesWith(md, "## Failure ") = <<"## Failure 1: test 1", "## Failure 2: test 2">>

AllPassedLine == "## All tests passed!"

Occurrences(lines, l) == Cardinality({i \in DOMAIN lines : lines[i] = l})

\* C16: for an empty list the document holds the all-passed statement and
\* neither the type summary table nor a failure section; for a non-empty list
\* it holds exactly one failure section per analysis and no all-passed
\* statement.
C16_AllPassedOrSections ==
    pc = "generated" =>
        IF analyses = <<>>
        THEN /\ Occurrences(md, AllPassedLine) = 1
             /\ Occurrences(md, "## Failures by Type") = 0
             /\ Occurrences(md, "| Type | Count | Priority |") = 0
             /\ LinesWith(md, "## Failure ") = <<>>
        ELSE /\ Occurrences(md, AllPassedLine) = 0
             /\ Len(LinesWith(md, "## Failure ")) = Len(analyses)
             /\ \A i \in DOMAIN analyses :
                    Occurrences(md, "## Failure " \o ToString(i) \o ": "
                                        \o analyses[i].testName) = 1

\* a report generated for an empty list
C16_Witness ==
    /\ pc = "generated"
    /\ analyses = <<>>
    /\ totalTests > 0
    /\ md[Len(md)] = AllPassedLine

-----------------------------------------------------------------------------
(* main and analyzeWithGemini                                              *)

\* countTests: the counters after a list of tests
RECURSIVE countEntries(_)
countEntries(tests) ==
    IF tests = <<>> THEN [total |-> 0, passed |-> 0, duration |-> 0]
    ELSE LET rest == countEntries(Tail(tests))
             results == Head(tests).results
             last == results[Len(results)]
         IN  [total |-> rest.total + 1,
              passed |-> rest.passed
                           + (IF results # <<>> /\ last.status = "passed" THEN 1 ELSE 0),
              duration |-> rest.duration
                           + (IF results # <<>> THEN last.duration ELSE 0)]

addCounts(a, b) ==
    [total |-> a.total + b.total, passed |-> a.passed + b.passed,
     duration |-> a.duration + b.duration]

RECURSIVE countSpecs(_)
countSpecs(specs) ==
    IF specs = <<>> THEN [total |-> 0, passed |-> 0, duration |-> 0]
    ELSE addCounts(countEntries(Head(specs).tests), countSpecs(Tail(specs)))

\* countTests(suites): totalTests, passedTests and totalDuration it adds up
RECURSIVE countTests(_)
countTests(suites) ==
    IF suites = <<>> THEN [total |-> 0, passed |-> 0, duration |-> 0]
    ELSE addCounts(addCounts(countSpecs(Head(suites).specs),
                             countTests(Head(suites).suites)),
                   countTests(Tail(suites)))

\* (f.result.attachments ?? []).filter(image).map(a => a.path ?? "(embedded)")
\*     .filter(Boolean)
RECURSIVE screenshotsOf(_)
screenshotsOf(attachments) ==
    IF attachments = <<>> THEN <<>>
    ELSE LET a == Head(attachments)
             shot == IF a.path = <<>> THEN "(embedded)" ELSE a.path[1]
         IN  (IF startsWith(a.contentType, "image/") /\ shot # ""
              THEN <<shot>> ELSE <<>>)
             \o screenshotsOf(Tail(attachments))

\* readSourceContext where none of the candidate paths exists
sourceNotFound == "(source file not found)"

\* the FailureAnalysis main builds for a RawFailure, before the enrichment
buildAnalysis(f) ==
    LET error == f.result.error
        message == stripAnsi(IF error = <<>> THEN "(no error message)"
                             ELSE error[1].message)
        stackTrace == stripAnsi(IF error = <<>> \/ error[1].stack = <<>> THEN ""
                                ELSE error[1].stack[1])
        type == classifyFailure(message, <<stackTrace>>)
        ruled == analyzeWithRules(type, message)
    IN  [testName |-> f.testName,
         suiteName |-> f.suiteName,
         filePath |-> f.filePath,
         line |-> f.line,
         duration |-> f.result.duration,
         errorMessage |-> message,
         stackTrace |-> stackTrace,
         failureType |-> type,
         rootCause |-> ruled.rootCause,
         suggestedFix |-> ruled.suggestedFix,
         priority |-> ruled.priority,
         sourceContext |-> sourceNotFound,
         screenshots |-> screenshotsOf(f.result.attachments),
         llmAnalysis |-> <<>>]

\* how a request to the Gemini service can end
Responses == {"text", "no candidates", "not ok", "throws"}

GeminiText == "The timeout is too short for this page."

\* faulty variant: the body of a non-success response returned as the analysis
analyzeWithGemini_NoOkCheck(key, response) ==
    IF ~key THEN <<>>
    ELSE IF response = "text" THEN <<GeminiText>>
    ELSE IF response = "not ok" THEN <<"Gemini API 503: unavailable">>
    ELSE <<>>

\* the value analyzeWithGemini resolves to: undefined without a key, when fetch
\* or the parsing throws, when res.ok is false and when the answer holds no
\* candidate text
analyzeWithGemini(key, response) ==
    IF ~key THEN <<>>
    ELSE IF response = "text" THEN <<GeminiText>>
    ELSE <<>>

\* faulty variant: the next failure is taken up while requests are in flight
canStart_NoAwait(i) == i = Len(analyses) + Cardinality(inflight) + 1

\* for (const f of failures) with an await in its body: failure i is taken up
\* when the analyses before it are pushed and no call is awaited
canStart(i) == i = Len(analyses) + 1 /\ inflight = {}

\* faulty variant: the report written as soon as one analysis is there
loopDone_FirstAnalysis == Len(analyses) >= 1

\* the for loop has run through every failure
loopDone == Len(analyses) = Len(failures)

-----------------------------------------------------------------------------
(* Runs of main over the reports of a test execution                       *)

MaxFailing == 2

\* result.error of a failed attempt: absent, or a message and maybe a stack
MainErrors ==
    {<<>>,
     <<[message |-> ESC \o "[31mTimeout 5000ms exceeded." \o ESC \o "[39m",
        stack |-> <<"at a.spec.ts:12:5">>]>>,
     <<[message |-> "Expected substring: \"Nikon Z30\"\nReceived string: \"Nikon Z50\"\n",
        stack |-> <<>>]>>}

\* result.attachments of the k-th failing test
AttachmentsOf(k) ==
    IF k % 2 = 1
    THEN <<[contentType |-> "image/png", path |-> <<"shot.png">>],
           [contentType |-> "video/webm", path |-> <<"video.webm">>],
           [contentType |-> "image/png", path |-> <<>>]>>
    ELSE <<>>

FailedResult(error, k) ==
    [status |-> "failed", duration |-> 100 * k, error |-> error,
     attachments |-> AttachmentsOf(k)]

PassedResult == [status |-> "passed", duration |-> 50, error |-> <<>>, attachments |-> <<>>]

\* how the tests that neither passed nor failed ended: the status of their
\* only attempt, or "none" for a TestEntry without results
OtherTests ==
    {<<>>, <<"timedOut">>, <<"interrupted">>, <<"skipped", "none">>}

OtherResult(status) ==
    [status |-> status, duration |-> 30, error |-> <<>>, attachments |-> <<>>]

\* a file with a passing test (failed once, passed on retry), one failing
\* test per error and the tests that ended otherwise, inside a describe block
MainReport(errors, others) ==
    <<[title |-> "",
       specs |-> <<>>,
       suites |->
         <<[title |-> "Search",
            specs |->
              <<[NewSpec(0) EXCEPT
                    !.tests = <<[results |-> <<FailedResult(<<>>, 0), PassedResult>>]>>]>>
              \o [k \in DOMAIN errors |->
                    [NewSpec(k) EXCEPT
                        !.tests = <<[results |-> <<FailedResult(errors[k], k)>>]>>]]
              \o [k \in DOMAIN others |->
                    [NewSpec(10 + k) EXCEPT
                        !.tests = <<[results |->
                                       IF others[k] = "none" THEN <<>>
                                       ELSE <<OtherResult(others[k])>>]>>]],
            suites |-> <<>>]>>]>>

InitMain ==
    /\ pc = "start"
    /\ errorMessage = ""
    /\ stack = <<>>
    /\ failureType = "none"
    /\ rules = NoRules
    /\ nfrags = 0
    /\ edits = 0
    /\ report = <<>>
    /\ open = 0
    /\ nodes = 0
    /\ failures = <<>>
    /\ NoRun

\* main from the return of runTests up to the loop: the failures are
\* extracted, the tests counted; with no failure the report is written and
\* main returns
AfterRunTests(key, suites) ==
    /\ apiKey' = key
    /\ report' = suites
    /\ failures' = extractFailures(report')
    /\ LET counted == countTests(report')
       IN  /\ totalTests' = counted.total
           /\ passedTests' = counted.passed
           /\ totalDuration' = counted.duration
    /\ IF failures' = <<>>
       THEN /\ md' = generateReport(<<>>, totalTests', passedTests', totalDuration',
                                    GeneratedAt).md
            /\ written' = Append(written, md')
            /\ pc' = "done"
       ELSE /\ pc' = "analyze"
            /\ UNCHANGED <<md, written>>
    /\ UNCHANGED <<analyses, inflight, outcomes, open, nodes, textVars,
                   printed, sourceVars>>

\* main up to the loop, runTests returning the report of this run's tests
StartRun(key, errors, others) ==
    /\ pc = "start"
    /\ AfterRunTests(key, MainReport(errors, others))
    /\ UNCHANGED ingestVars

\* one turn of the loop up to its await: the analysis of failures[i] is built
\* and analyzeWithGemini called; without a key it returns at once
AnalyzeNext(i) ==
    /\ pc = "analyze"
    /\ i \in DOMAIN failures
    /\ canStart(i)
    /\ IF apiKey
       THEN /\ inflight' = inflight \cup {i}
            /\ UNCHANGED <<analyses, outcomes>>
       ELSE /\ analyses' = Append(analyses,
                   [buildAnalysis(failures[i]) EXCEPT
                       !.llmAnalysis = analyzeWithGemini(apiKey, "text")])
            /\ outcomes' = outcomes @@ (i :> "no key")
            /\ UNCHANGED inflight
    /\ UNCHANGED <<pc, apiKey, totalTests, passedTests, totalDuration, md, written,
                   treeVars, textVars, sysVars>>

\* the request for failures[i] ends: the awaited call resolves and the
\* analysis is pushed
Respond(i, response) ==
    /\ pc = "analyze"
    /\ i \in inflight
    /\ i \notin DOMAIN outcomes
    /\ inflight' = inflight \ {i}
    /\ analyses' = Append(analyses,
           [buildAnalysis(failures[i]) EXCEPT
               !.llmAnalysis = analyzeWithGemini(apiKey, response)])
    /\ outcomes' = outcomes @@ (i :> response)
    /\ UNCHANGED <<pc, apiKey, totalTests, passedTests, totalDuration, md, written,
                   treeVars, textVars, sysVars>>

\* the service accepts the request for failures[i] and never answers it: the
\* fetch is given no signal and no timeout, so its promise stays pending
NoResponse(i) ==
    /\ pc = "analyze"
    /\ i \in inflight
    /\ i \notin DOMAIN outcomes
    /\ outcomes' = outcomes @@ (i :> "no response")
    /\ UNCHANGED <<pc, analyses, apiKey, inflight, totalTests, passedTests,
                   totalDuration, md, written, treeVars, textVars, sysVars>>

\* the counts printSummary prints
printSummary(list, total) ==
    [passed |-> total - Len(list), failed |-> Len(list), total |-> total]

\* after the loop: the report generated and written, the summary printed
WriteReport ==
    /\ pc = "analyze"
    /\ inflight = {}
    /\ loopDone
    /\ LET r == generateReport(analyses, totalTests, passedTests, totalDuration,
                               GeneratedAt)
       IN  /\ md' = r.md
           /\ analyses' = r.analyses
           /\ written' = Append(written, r.md)
           /\ printed' = <<printSummary(r.analyses, totalTests)>>
    /\ pc' = "done"
    /\ UNCHANGED <<apiKey, inflight, outcomes, totalTests, passedTests,
                   totalDuration, treeVars, textVars, ingestVars, sourceVars>>

NextMain ==
    \/ \E key \in BOOLEAN, n \in 0..MaxFailing :
           \E errors \in [1..n -> MainErrors], others \in OtherTests :
               StartRun(key, errors, others)
    \/ \E i \in 1..MaxFailing : AnalyzeNext(i)
    \/ \E i \in 1..MaxFailing, response \in Responses : Respond(i, response)
    \/ \E i \in 1..MaxFailing : NoResponse(i)
    \/ WriteReport

SpecMain == InitMain /\ [][NextMain]_vars

-----------------------------------------------------------------------------
(* Claims about the runs of main                                           *)

\* a FailureAnalysis with its enrichment left out
WithoutLlm(a) == [a EXCEPT !.llmAnalysis = <<>>]

\* the record of a run in which the enrichment of f succeeds
EnrichedRecord(f) == [buildAnalysis(f) EXCEPT !.llmAnalysis = <<GeminiText>>]

\* the ways an enrichment ends without a usable answer
AbsentOutcomes == {"no key", "throws", "not ok"}

\* the request for failures[i] is in flight and will never be answered
Silent(i) == i \in inflight /\ i \in DOMAIN outcomes /\ outcomes[i] = "no response"

\* the run has a step to take: the next failure, the report, or the answer
\* to a request that can still be answered
NextStepReady ==
    \/ \E i \in DOMAIN failures : canStart(i)
    \/ inflight = {} /\ loopDone
    \/ \E i \in inflight : i \notin DOMAIN outcomes

\* C17: enrichment can only affect llmAnalysis: when the credential is absent,
\* the request throws or the answer is a non-success response, the record has
\* no enrichment, every other field is what it is in a run where enrichment
\* succeeds, and the run is not stopped: it can take its next step, and when it
\* is done every failure is analysed and the report written.
C17_EnrichmentOnlyLlm ==
    /\ \A k \in DOMAIN analyses :
         /\ k \in DOMAIN outcomes
         /\ WithoutLlm(analyses[k]) = WithoutLlm(EnrichedRecord(failures[k]))
         /\ outcomes[k] \in AbsentOutcomes => analyses[k].llmAnalysis = <<>>
         /\ ~apiKey => outcomes[k] = "no key"
    /\ (pc = "analyze" /\ \A i \in DOMAIN outcomes : outcomes[i] \in AbsentOutcomes)
           => NextStepReady
    /\ pc = "done" => Len(analyses) = Len(failures) /\ Len(written) = 1

\* a finished run with a key whose first request threw and whose second was
\* answered with a non-success response
C17_Witness ==
    /\ pc = "done"
    /\ apiKey
    /\ Len(failures) = 2
    /\ outcomes = <<"throws", "not ok">>
    /\ analyses[1].llmAnalysis = <<>>
    /\ analyses[2].llmAnalysis = <<>>
    /\ analyses[1].failureType # analyses[2].failureType
    /\ Len(written) = 1

\* C18: main processes the failures strictly in sequence: at most one
\* enrichment request is in flight, the request for a failure is in flight
\* only when the analyses of all failures before it are pushed, and analyses
\* has the order of the extracted failures and, at the end, their number.
C18_Sequential ==
    /\ Cardinality(inflight) <= 1
    /\ \A i \in inflight : i = Len(analyses) + 1
    /\ Len(analyses) <= Len(failures)
    /\ \A k \in DOMAIN analyses :
         /\ analyses[k].testName = failures[k].testName
         /\ analyses[k].line = failures[k].line
    /\ pc = "done" => Len(analyses) = Len(failures)

\* the request for the second failure in flight, the first analysis pushed
C18_Witness ==
    /\ pc = "analyze"
    /\ inflight = {2}
    /\ Len(analyses) = 1
    /\ 1 \in DOMAIN outcomes
    /\ analyses[1].testName = failures[1].testName

C20_SilentRequestIsEnded ==
    \A i \in inflight : Silent(i) => NextStepReady

-----------------------------------------------------------------------------
(* Claim about the run counters                                            *)

\* the TestEntries whose last attempt has a status, counted with repetition
RECURSIVE EntriesEnding(_, _)
EntriesEnding(suites, status) ==
    IF suites = <<>> THEN 0
    ELSE LET s == Head(suites)
             InSpec(k) ==
                 Cardinality({t \in DOMAIN s.specs[k].tests :
                     LET results == s.specs[k].tests[t].results
                     IN  results # <<>> /\ results[Len(results)].status = status})
             RECURSIVE InSpecs(_)
             InSpecs(k) == IF k = 0 THEN 0 ELSE InSpec(k) + InSpecs(k - 1)
         IN  InSpecs(Len(s.specs)) + EntriesEnding(s.suites, status)
                 + EntriesEnding(Tail(suites), status)

\* C24: the run counters agree for every result tree: the passed count that
\* printSummary prints is the passedTests of the report, which is the number
\* of TestEntries whose last attempt is "passed", and passed + failed never
\* exceeds totalTests.
C24_CountersConsistent ==
    printed # <<>> =>
        /\ passedTests = EntriesEnding(report, "passed")
        /\ LinesWith(md, "| Passed | ") = <<"| Passed | " \o ToString(passedTests) \o " |">>
        /\ printed[1].passed = passedTests
        /\ printed[1].passed + printed[1].failed <= totalTests
        /\ passedTests + Len(analyses) <= totalTests

-----------------------------------------------------------------------------
(* readSourceContext                                                       *)

NL == "\n"

\* process.cwd()
Cwd == "/w"

\* index of the first c of s at or after i, 0 when there is none
RECURSIVE indexOfFrom(_, _, _)
indexOfFrom(s, c, i) ==
    IF i > Len(s) THEN 0
    ELSE IF CharAt(s, i) = c THEN i
    ELSE indexOfFrom(s, c, i + 1)

\* path.basename for a path that does not end with "/"
RECURSIVE basename(_)
basename(p) ==
    LET k == indexOfFrom(p, "/", 1)
    IN  IF k = 0 THEN p ELSE basename(Drop(p, k))

\* path.resolve(...segments): from the right up to the first absolute
\* segment, else from the working directory.  The segments here hold no
\* ".", ".." or empty part, so that its normalisation changes nothing.
RECURSIVE resolve(_)
resolve(segments) ==
    IF segments = <<>> THEN Cwd
    ELSE LET last == segments[Len(segments)]
         IN  IF startsWith(last, "/") THEN last
             ELSE resolve(SubSeq(segments, 1, Len(segments) - 1)) \o "/" \o last

\* fs.existsSync: true for a file and for a directory
existsSync(fs, p) == p \in DOMAIN fs /\ fs[p].kind # "absent"

\* whether fs.readFileSync(p, "utf-8") throws (EISDIR)
readFileSyncThrows(fs, p) == fs[p].kind = "dir"

readFileSync(fs, p) == fs[p].content

\* String.prototype.split("\n")
RECURSIVE split(_)
split(s) ==
    LET k == indexOfFrom(s, NL, 1)
    IN  IF k = 0 THEN <<s>> ELSE <<SubSeq(s, 1, k - 1)>> \o split(Drop(s, k))

\* Array.prototype.join("\n")
RECURSIVE join(_)
join(lines) ==
    IF lines = <<>> THEN ""
    ELSE IF Len(lines) = 1 THEN lines[1]
    ELSE lines[1] \o NL \o join(Tail(lines))

\* String.prototype.padStart(4)
RECURSIVE padStart4(_)
padStart4(s) == IF Len(s) >= 4 THEN s ELSE padStart4(" " \o s)

DigitValue(c) == CHOOSE d \in 0..9 : ToString(d) = c

\* parseInt(s, 10) of a string of digits
RECURSIVE parseInt(_)
parseInt(s) ==
    IF s = "" THEN 0
    ELSE 10 * parseInt(SubSeq(s, 1, Len(s) - 1)) + DigitValue(CharAt(s, Len(s)))

\* whether new RegExp(base + ":(\\d+):\\d+") throws a SyntaxError: base is
\* put into the pattern as it is, and a "(" that no ")" closes is an
\* unterminated group.  (The names here hold letters, "." and "(" only.)
RegExpThrows(base) == includes(base, "(") /\ ~includes(base, ")")

\* the match of base + ":(\\d+):\\d+" that begins at index i of s: <<>> or
\* <<m[1]>>.  A "." of base matches every character but a line end, every
\* other character of base itself.
matchAt(s, i, base) ==
    LET a == i + Len(base)
        baseMatches ==
            /\ a <= Len(s)
            /\ \A k \in 1..Len(base) :
                  IF CharAt(base, k) = "." THEN CharAt(s, i + k - 1) # NL
                  ELSE CharAt(s, i + k - 1) = CharAt(base, k)
    IN  IF baseMatches /\ CharAt(s, a) = ":"
        THEN LET b == RunEnd(s, a + 1, Digits)
             IN  IF b > a + 1 /\ b < Len(s) /\ CharAt(s, b) = ":"
                    /\ CharAt(s, b + 1) \in Digits
                 THEN <<SubSeq(s, a + 1, b - 1)>>
                 ELSE <<>>
        ELSE <<>>

\* String.prototype.match with that pattern: the leftmost match
RECURSIVE matchFrom(_, _, _)
matchFrom(s, i, base) ==
    IF i > Len(s) THEN <<>>
    ELSE IF matchAt(s, i, base) # <<>> THEN matchAt(s, i, base)
    ELSE matchFrom(s, i + 1, base)

\* whether the guard "if (errorStack)" lets the stack be searched
hasStack(errorStack) == errorStack # <<>> /\ errorStack[1] # ""

\* failingLine after the search of the stack
failingLineOf(path, errorStack) ==
    IF hasStack(errorStack)
    THEN LET m == matchFrom(errorStack[1], 1, basename(path))
         IN  IF m # <<>> THEN parseInt(m[1]) ELSE 0
    ELSE 0

\* the places tried, in the order tried
candidates(path) ==
    <<resolve(<<path>>), resolve(<<"tests", path>>),
      resolve(<<"tests", basename(path)>>)>>

\* fullPath after the three tries
fullPathOf(path, fs) ==
    LET c == candidates(path)
    IN  IF existsSync(fs, c[1]) THEN c[1]
        ELSE IF existsSync(fs, c[2]) THEN c[2]
        ELSE c[3]

windowStart_SixBefore(failingLine) ==
    IF failingLine - 7 > 0 THEN failingLine - 7 ELSE 0

\* start: Math.max(0, failingLine - 8), an index counted from 0
windowStart(failingLine) ==
    IF failingLine - 8 > 0 THEN failingLine - 8 ELSE 0

\* end: Math.min(lines.length, failingLine + 7)
windowEnd(lines, failingLine) ==
    IF Len(lines) < failingLine + 7 THEN Len(lines) ELSE failingLine + 7

\* lines.slice(start, end).map(...) around the failing line
windowLines(lines, failingLine) ==
    LET start == windowStart(failingLine)
        end == windowEnd(lines, failingLine)
    IN  [i \in 1..(IF end > start THEN end - start ELSE 0) |->
            LET n == start + i
                marker == IF n = failingLine THEN " -> " ELSE "    "
            IN  marker \o padStart4(ToString(n)) \o " | " \o lines[n]]

\* lines.slice(0, 30).map(...)
firstLines(lines) ==
    [i \in 1..(IF Len(lines) < 30 THEN Len(lines) ELSE 30) |->
        "    " \o padStart4(ToString(i)) \o " | " \o lines[i]]

Returned(text) == [threw |-> FALSE, text |-> text]

ThrownError == [threw |-> TRUE, text |-> ""]

readSourceContext(path, errorStack, fs) ==
    IF hasStack(errorStack) /\ RegExpThrows(basename(path)) THEN ThrownError
    ELSE LET failingLine == failingLineOf(path, errorStack)
             fullPath == fullPathOf(path, fs)
         IN  IF ~existsSync(fs, fullPath) THEN Returned(sourceNotFound)
             ELSE IF readFileSyncThrows(fs, fullPath) THEN ThrownError
             ELSE LET lines == split(readFileSync(fs, fullPath))
                  IN  IF failingLine > 0
                      THEN Returned(join(windowLines(lines, failingLine)))
                      ELSE Returned(join(firstLines(lines)))

-----------------------------------------------------------------------------
(* Calls of readSourceContext: a file path, a file system, a stack         *)

\* most lines of a source file
MaxLines == 31

\* largest line number in a stack
MaxStackLine == 17

\* a spec file in the test directory, one in a folder of it, and one whose
\* name holds a character that opens a group in a regular expression
SourcePaths == {"a.spec.ts", "d/a.spec.ts", "a(.spec.ts"}

FileKinds == {"absent", "dir", "file"}

\* the text of a file of n lines; the lines of the file at the k-th place
\* tried begin with the k-th of the letters p, q, r
FileText(k, n, finalNewline) ==
    join([i \in 1..n |-> CharAt("pqr", k) \o ToString(i)])
        \o (IF finalNewline /\ n > 0 THEN NL ELSE "")

\* the texts of the files, by place, number of lines and final line end
FileTexts ==
    [k \in 1..3, n \in 0..MaxLines, finalNewline \in BOOLEAN |->
        FileText(k, n, finalNewline)]

\* index of the first place tried that is p
PlaceTried(path, p) == CHOOSE k \in 1..3 : candidates(path)[k] = p /\
                           \A j \in 1..(k - 1) : candidates(path)[j] # p

\* the stacks: none, empty, without a frame of the file, with a frame of
\* the file, and with a frame of another file that the pattern matches too
StackTexts(path) ==
    {<<>>, <<"">>, <<"Error: boom">>,
     <<"at axspec.ts:3:1" \o NL \o "at a.spec.ts:5:1">>}
    \cup {<<"Error: boom" \o NL \o "    at " \o resolve(<<"tests", path>>) \o ":"
              \o ToString(line) \o ":5">> : line \in 0..MaxStackLine}

InitSource ==
    /\ pc = "source"
    /\ errorMessage = ""
    /\ failureType = "none"
    /\ rules = NoRules
    /\ nfrags = 0
    /\ edits = 0
    /\ report = <<>>
    /\ open = 0
    /\ nodes = 0
    /\ failures = <<>>
    /\ NoMain
    /\ NoIngest
    /\ filePath \in SourcePaths
    /\ stack \in StackTexts(filePath)
    /\ \E n \in 0..MaxLines, finalNewline \in BOOLEAN :
       \E kinds \in [{candidates(filePath)[k] : k \in 1..3} -> FileKinds] :
          files = [p \in DOMAIN kinds |->
                      IF kinds[p] = "file"
                      THEN [kind |-> "file",
                            content |-> FileTexts[PlaceTried(filePath, p), n,
                                                  finalNewline]]
                      ELSE [kind |-> kinds[p]]]
    /\ context = [threw |-> FALSE, text |-> ""]

\* main's call readSourceContext(f.filePath, stackTrace)
ReadContext ==
    /\ pc = "source"
    /\ context' = readSourceContext(filePath, stack, files)
    /\ pc' = "context"
    /\ UNCHANGED <<textVars, treeVars, reportVars, enrichVars, printed,
                   ingestVars, filePath, files>>

NextSource == ReadContext

SpecSource == InitSource /\ [][NextSource]_vars

-----------------------------------------------------------------------------
(* Claims about readSourceContext                                          *)

\* index of the first place tried where something exists, 0 when nothing does
FirstExisting ==
    LET c == candidates(filePath)
        there == {k \in 1..3 : files[c[k]].kind # "absent"}
    IN  IF there = {} THEN 0 ELSE CHOOSE k \in there : \A j \in there : k <= j

\* the lines of the file at the first place where something exists: the
\* pieces of its text between line ends
FoundLines == split(files[candidates(filePath)[FirstExisting]].content)

\* the line number recovered from the stack, 0 when none is
RecoveredLine == failingLineOf(filePath, stack)

\* the lines numbered first..last, each after its number, line marked after
\* the marker as well, joined
RECURSIVE NumberedFromTo(_, _, _, _)
NumberedFromTo(lines, first, last, marked) ==
    IF first > last THEN <<>>
    ELSE <<(IF first = marked THEN " -> " ELSE "    ")
              \o padStart4(ToString(first)) \o " | " \o lines[first]>>
         \o NumberedFromTo(lines, first + 1, last, marked)

\* a call that recovered a line number and read the file returned the lines
\* from `before' lines before that line to 7 lines after it, clipped to the
\* file, numbered, with the marker at that line only
WindowReturned(before) ==
    (pc = "context" /\ ~context.threw /\ FirstExisting # 0 /\ RecoveredLine > 0) =>
        LET lines == FoundLines
            first == IF RecoveredLine - before < 1 THEN 1 ELSE RecoveredLine - before
            last == IF RecoveredLine + 7 > Len(lines) THEN Len(lines)
                    ELSE RecoveredLine + 7
        IN  context.text = join(NumberedFromTo(lines, first, last, RecoveredLine))

\* C22 as stated: when readSourceContext recovers a line number L from the
\* stack, it returns exactly the lines L-8 to L+7 of the file, clipped to the
\* first and last line of the file, each after its line number, with the
\* marker at line L and at no other line.
C22_WindowFromEightBefore == WindowReturned(8)

\* C22 amended: when readSourceContext recovers a line number L >= 1 from the
\* stack and reads the file, it returns exactly the lines L-7 to L+7 of the
\* file, clipped to the first and last line of the file, each after its line
\* number, with the marker at line L and at no other line.
C22_WindowFromSevenBefore == WindowReturned(7)

\* line 9 recovered in a file of more than 16 lines: 15 lines returned, from
\* line 2 to line 16, line 9 marked
C22_Witness ==
    /\ pc = "context"
    /\ ~context.threw
    /\ RecoveredLine = 9
    /\ LET t == split(context.text)
       IN  /\ Len(t) = 15
           /\ t[1] = "       2 | p2"
           /\ t[8] = " ->    9 | p9"
           /\ t[15] = "      16 | p16"

\* C23: readSourceContext never throws; it returns "(source file not found)"
\* exactly when nothing exists at any of the three places tried in order
\* (the path as given, tests/<path>, tests/<basename>), and otherwise the text
\* of the file at the first place where something exists: without a
\* recovered line number its first 30 lines, numbered and without marker.
C23_NeverThrows ==
    pc = "context" =>
        /\ ~context.threw
        /\ (context.text = sourceNotFound) <=> (FirstExisting = 0)
        /\ FirstExisting # 0 =>
              LET lines == FoundLines
              IN  /\ RecoveredLine > 0 =>
                        context.text = join(windowLines(lines, RecoveredLine))
                  /\ RecoveredLine = 0 =>
                        context.text =
                            join(NumberedFromTo(lines, 1,
                                     IF Len(lines) < 30 THEN Len(lines) ELSE 30, 0))

-----------------------------------------------------------------------------
(* runTests                                                                *)

\* what a run of the test command can do to test-results/report.json: the
\* reporter writes the report of this run; the file of an earlier run is
\* cleared away and none written (the command is killed at the timeout, or
\* the reporter does not write to the file); nothing (the command cannot
\* start)
FileEffects == {"written", "removed", "untouched"}

\* what the fallback captures from the standard output of the command
Captures == {"json", "prefixed json", "text", "empty"}

\* JSON.parse(raw.substring(jsonStart)) or JSON.parse(raw) throws
parseThrows(stdout) == stdout \notin {"json", "prefixed json"}

\* the report of the tests of this run, and a report left by an earlier run
CurrentReports ==
    {MainReport(<<>>, <<>>)}
        \cup {MainReport(<<error>>, <<"timedOut">>) : error \in MainErrors}

EarlierReport == MainReport(<<<<>>, <<>>>>, <<"interrupted">>)

ReportFiles ==
    {[state |-> "absent"],
     [state |-> "garbage", origin |-> "earlier"],
     [state |-> "json", origin |-> "earlier", suites |-> EarlierReport]}

InitIngest ==
    /\ pc = "runTests"
    /\ errorMessage = ""
    /\ stack = <<>>
    /\ failureType = "none"
    /\ rules = NoRules
    /\ nfrags = 0
    /\ edits = 0
    /\ report = <<>>
    /\ open = 0
    /\ nodes = 0
    /\ failures = <<>>
    /\ NoMain
    /\ NoSource
    /\ executions = 0
    /\ exitCode = <<>>
    /\ origin = "none"
    /\ reportFile \in ReportFiles

\* process.exit(1), by runTests itself or by main().catch
Exit ==
    /\ pc' = "exited"
    /\ exitCode' = <<1>>
    /\ UNCHANGED <<treeVars, reportVars, enrichVars, printed, sourceVars,
                   origin>>

\* the first execSync; whether it throws makes no difference, the catch is
\* empty
RunCommand(effect, suites) ==
    /\ pc = "runTests"
    /\ executions' = executions + 1
    /\ reportFile' =
          CASE effect = "written" ->
                   [state |-> "json", origin |-> "current", suites |-> suites]
            [] effect = "removed" -> [state |-> "absent"]
            [] effect = "untouched" -> reportFile
    /\ pc' = "ran"
    /\ UNCHANGED <<textVars, treeVars, reportVars, enrichVars, printed,
                   sourceVars, exitCode, origin>>

\* report.json exists: it is parsed and returned, whichever run wrote it;
\* JSON.parse is in no try block
ReadReportFile(key) ==
    /\ pc = "ran"
    /\ reportFile.state # "absent"
    /\ IF reportFile.state = "json"
       THEN /\ origin' = reportFile.origin
            /\ AfterRunTests(key, reportFile.suites)
            /\ UNCHANGED <<executions, exitCode, reportFile>>
       ELSE /\ Exit
            /\ UNCHANGED <<executions, reportFile>>
    /\ UNCHANGED textVars

\* report.json does not exist: the command is run again and the report
\* parsed from its standard output (from e.stdout when execSync threw)
RunFallback(key, threw, stdout, suites) ==
    /\ pc = "ran"
    /\ reportFile.state = "absent"
    /\ executions' = executions + 1
    /\ IF parseThrows(stdout)
       THEN Exit
       ELSE /\ origin' = "current"
            /\ AfterRunTests(key, suites)
            /\ UNCHANGED exitCode
    /\ UNCHANGED <<textVars, reportFile>>

NextIngest ==
    \/ \E effect \in FileEffects, suites \in CurrentReports :
           RunCommand(effect, suites)
    \/ \E key \in BOOLEAN : ReadReportFile(key)
    \/ \E key, threw \in BOOLEAN, stdout \in Captures, suites \in CurrentReports :
           RunFallback(key, threw, stdout, suites)
    \/ \E i \in 1..MaxFailing : AnalyzeNext(i)
    \/ \E i \in 1..MaxFailing, response \in Responses : Respond(i, response)
    \/ \E i \in 1..MaxFailing : NoResponse(i)
    \/ WriteReport

SpecIngest == InitIngest /\ [][NextIngest]_vars

-----------------------------------------------------------------------------
(* Claims about runTests                                                   *)

\* a run of the test command of this run produced a structured report
ProducedByThisRun ==
    \/ origin = "current"
    \/ reportFile.state = "json" /\ reportFile.origin = "current"

\* C21: an upstream failure is fatal, whatever the test-results directory
\* held at the start: when the test execution of this run produces no
\* structured report, the run ends with a non-zero exit code and writes no
\* failure-analysis report; a run never analyses results that its own test
\* execution did not produce.
C21_UpstreamFailureFatal ==
    /\ (pc \in {"analyze", "done"} \/ written # <<>>) => origin = "current"
    /\ (pc \in {"done", "exited"} /\ ~ProducedByThisRun) =>
           exitCode = <<1>> /\ written = <<>>

\* C25: within one run, runTests runs the test suite at most once, whichever
\* way (report file, standard output, standard output of a failed command)
\* yields the report.
C25_SuiteRunAtMostOnce == executions <= 1

=============================================================================
